---- MODULE Spec2Model ----
(***************************************************************************)
(* Model of the tag-and-extent scanner of ack-ai (src/src/analyzer.ts).    *)
(* Text is a sequence of one-character strings; offsets are 0-based as in  *)
(* the source, so text.charCodeAt(i) is At(text, i).                       *)
(***************************************************************************)
EXTENDS Integers, Sequences, FiniteSets, TLC

(***************************************************************************)
(* Characters and strings                                                  *)
(***************************************************************************)

\* A string literal as a sequence of one-character strings.
Chars(s) == [i \in 1..Len(s) |-> SubSeq(s, i, i)]

\* text.charCodeAt(i): the character at 0-based offset i, NoChar (NaN) outside.
NoChar == ""

\* The backtick character (a string literal cannot hold a lone backtick).
Backtick == SubSeq("`'", 1, 1)
At(text, i) == IF i >= 0 /\ i < Len(text) THEN text[i + 1] ELSE NoChar

\* text.slice(from, to) with 0-based, end-exclusive offsets.
Slice(text, from, to) == SubSeq(text, from + 1, to)

\* The concatenation of a sequence of sequences.
RECURSIVE Flatten(_)
Flatten(ss) == IF ss = <<>> THEN <<>> ELSE Head(ss) \o Flatten(Tail(ss))

\* The regex class \s restricted to the characters of the model's texts.
IsSpace(c) == c \in {" ", "\t", "\n", "\r"}

\* The characters the regex '.' does not match.
IsLineTerminator(c) == c \in {"\n", "\r"}

UpperLetters == Chars("ABCDEFGHIJKLMNOPQRSTUVWXYZ")
LowerLetters == Chars("abcdefghijklmnopqrstuvwxyz")
LowerOf == [c \in {UpperLetters[k] : k \in 1..26} |->
              LowerLetters[CHOOSE k \in 1..26 : UpperLetters[k] = c]]

\* String.prototype.toLowerCase, one character.
ToLowerChar(c) == IF c \in DOMAIN LowerOf THEN LowerOf[c] ELSE c

\* String.prototype.toLowerCase.
ToLowerCase(s) == [k \in 1..Len(s) |-> ToLowerChar(s[k])]

\* text.startsWith(needle, i).
StartsWithAt(text, needle, i) ==
  /\ i >= 0
  /\ i + Len(needle) <= Len(text)
  /\ \A k \in 1..Len(needle) : text[i + k] = needle[k]

\* text.indexOf(needle, from): first offset >= from where needle occurs, -1 if none.
RECURSIVE IndexOf(_, _, _)
IndexOf(text, needle, from) ==
  IF from + Len(needle) > Len(text) THEN -1
  ELSE IF StartsWithAt(text, needle, from) THEN from
  ELSE IndexOf(text, needle, from + 1)

\* Offset of the first line terminator at or after i, or the text length:
\* where a regex '.*' that starts at i stops.
RECURSIVE DotStarEnd(_, _)
DotStarEnd(text, i) ==
  IF i >= Len(text) \/ IsLineTerminator(At(text, i)) THEN i
  ELSE DotStarEnd(text, i + 1)

\* Offset of the first non-\s character at or after i, or the text length:
\* where a regex '\s*' that starts at i stops.
RECURSIVE SpaceStarEnd(_, _)
SpaceStarEnd(text, i) ==
  IF i >= Len(text) \/ ~IsSpace(At(text, i)) THEN i
  ELSE SpaceStarEnd(text, i + 1)

\* String.prototype.trim on the right: length of s without trailing \s.
RECURSIVE TrimEndLen(_, _)
TrimEndLen(s, n) ==
  IF n = 0 \/ ~IsSpace(s[n]) THEN n ELSE TrimEndLen(s, n - 1)

\* String.prototype.trim.
Trim(s) ==
  LET b == SpaceStarEnd(s, 0)
      e == TrimEndLen(s, Len(s))
  IN  IF b >= e THEN <<>> ELSE Slice(s, b, e)

\* s.replace(/\s*<suffix>$/, ''): drop a trailing suffix and the \s before it.
StripSuffix(s, suffix) ==
  IF Len(s) >= Len(suffix) /\ StartsWithAt(s, suffix, Len(s) - Len(suffix))
  THEN SubSeq(s, 1, TrimEndLen(s, Len(s) - Len(suffix)))
  ELSE s

(***************************************************************************)
(* Comment grammar: the module-level patterns of analyzer.ts               *)
(***************************************************************************)

JS_DOC_BLOCK_PATTERN == "JS_DOC_BLOCK_PATTERN"
JS_ALL_COMMENTS_PATTERN == "JS_ALL_COMMENTS_PATTERN"
JS_FILE_LEVEL_COMMENT_PATTERN == "JS_FILE_LEVEL_COMMENT_PATTERN"
PY_DOC_BLOCK_PATTERN == "PY_DOC_BLOCK_PATTERN"
PY_ALL_COMMENTS_PATTERN == "PY_ALL_COMMENTS_PATTERN"
PY_FILE_LEVEL_COMMENT_PATTERN == "PY_FILE_LEVEL_COMMENT_PATTERN"
HASH_ALL_COMMENTS_PATTERN == "HASH_ALL_COMMENTS_PATTERN"
HASH_FILE_LEVEL_COMMENT_PATTERN == "HASH_FILE_LEVEL_COMMENT_PATTERN"
NON_WHITESPACE_PATTERN == "NON_WHITESPACE_PATTERN"

\* The patterns compiled with the g flag: each is one shared object with a lastIndex.
GlobalPatterns ==
  {JS_DOC_BLOCK_PATTERN, JS_ALL_COMMENTS_PATTERN, PY_DOC_BLOCK_PATTERN,
   PY_ALL_COMMENTS_PATTERN, HASH_ALL_COMMENTS_PATTERN, NON_WHITESPACE_PATTERN}

\* <open>[\s\S]*?<close> tried at offset p: the end offset of the match, -1 if none.
DelimitedAt(text, open, close, p) ==
  IF ~StartsWithAt(text, open, p) THEN -1
  ELSE LET q == IndexOf(text, close, p + Len(open))
       IN  IF q = -1 THEN -1 ELSE q + Len(close)

\* <prefix>.* tried at offset p: the end offset of the match, -1 if none.
LineCommentAt(text, prefix, p) ==
  IF StartsWithAt(text, prefix, p) THEN DotStarEnd(text, p + Len(prefix)) ELSE -1

JsDocAt(text, p) == DelimitedAt(text, Chars("/**"), Chars("*/"), p)

PyDocAt(text, p) ==
  LET d == DelimitedAt(text, Chars("\"\"\""), Chars("\"\"\""), p)
  IN  IF d # -1 THEN d ELSE DelimitedAt(text, Chars("'''"), Chars("'''"), p)

\* One global pattern tried at offset p (alternatives in the pattern's order):
\* the end offset of the match, -1 if the pattern does not match at p.
PatternAt(text, pattern, p) ==
  CASE pattern = JS_DOC_BLOCK_PATTERN -> JsDocAt(text, p)
    [] pattern = JS_ALL_COMMENTS_PATTERN ->
         IF JsDocAt(text, p) # -1 THEN JsDocAt(text, p)
         ELSE LineCommentAt(text, Chars("//"), p)
    [] pattern = PY_DOC_BLOCK_PATTERN -> PyDocAt(text, p)
    [] pattern = PY_ALL_COMMENTS_PATTERN ->
         IF PyDocAt(text, p) # -1 THEN PyDocAt(text, p)
         ELSE LineCommentAt(text, Chars("#"), p)
    [] pattern = HASH_ALL_COMMENTS_PATTERN -> LineCommentAt(text, Chars("#"), p)
    [] pattern = NON_WHITESPACE_PATTERN ->
         IF p < Len(text) /\ ~IsSpace(At(text, p)) THEN p + 1 ELSE -1

NoMatch == [index |-> -1, end |-> -1]

\* Leftmost match of a pattern at or after offset p.
RECURSIVE SearchFrom(_, _, _)
SearchFrom(text, pattern, p) ==
  IF p >= Len(text) THEN NoMatch
  ELSE IF PatternAt(text, pattern, p) # -1
       THEN [index |-> p, end |-> PatternAt(text, pattern, p)]
       ELSE SearchFrom(text, pattern, p + 1)

\* RegExp.prototype.exec of a g-flagged pattern whose lastIndex is lastIdx:
\* the match (or NoMatch) and the lastIndex the call leaves in the pattern.
RegExpExec(text, pattern, lastIdx) ==
  LET m == IF lastIdx > Len(text) THEN NoMatch ELSE SearchFrom(text, pattern, lastIdx)
  IN  [match |-> m, lastIndex |-> IF m.index = -1 THEN 0 ELSE m.end]

(***************************************************************************)
(* Tag and state word                                                      *)
(***************************************************************************)

\* The tag occurs in the comment at offset i, letters compared without case.
TagAt(comment, tag, i) ==
  /\ i + Len(tag) <= Len(comment)
  /\ \A k \in 1..Len(tag) : ToLowerChar(comment[i + k]) = ToLowerChar(tag[k])

RECURSIVE TagIndex(_, _, _)
TagIndex(comment, tag, from) ==
  IF from + Len(tag) > Len(comment) THEN -1
  ELSE IF TagAt(comment, tag, from) THEN from
  ELSE TagIndex(comment, tag, from + 1)

\* The characters of the class [.*+?^${}()|[\]\\].
RegExpSpecials == {".", "*", "+", "?", "^", "$", "{", "}", "(", ")", "|", "[", "]", "\\"}

\* escapeRegExp with nothing escaped.
escapeRegExp_Identity(string) == string

\* string.replace(/[.*+?^${}()|[\]\\]/g, '\\$&')
escapeRegExp(string) ==
  Flatten([k \in 1..Len(string) |->
             IF string[k] \in RegExpSpecials THEN <<"\\", string[k]>> ELSE <<string[k]>>])

\* The atoms of a regex source: a character, an escaped character or '.',
\* each with the quantifier that follows it.  The sources escapeRegExp
\* returns hold no group, class, anchor or alternation.
RECURSIVE RegExpAtoms(_)
RegExpAtoms(source) ==
  IF source = <<>> THEN <<>>
  ELSE LET escaped == Head(source) = "\\" /\ Len(source) >= 2
           n == IF escaped THEN 2 ELSE 1
           q == IF At(source, n) \in {"*", "+", "?"} THEN At(source, n) ELSE NoChar
           atom == [char |-> IF escaped THEN source[2] ELSE Head(source),
                    any |-> ~escaped /\ Head(source) = ".",
                    quantifier |-> q]
       IN  <<atom>> \o RegExpAtoms(SubSeq(source, n + (IF q = NoChar THEN 1 ELSE 2), Len(source)))

\* One atom matches the character at offset i under the i flag.
AtomMatches(atom, text, i) ==
  /\ i < Len(text)
  /\ IF atom.any THEN ~IsLineTerminator(At(text, i))
     ELSE ToLowerChar(At(text, i)) = ToLowerChar(atom.char)

\* Number of consecutive characters from offset i the atom matches, at most max.
RECURSIVE AtomRun(_, _, _, _)
AtomRun(atom, text, i, max) ==
  IF max = 0 \/ ~AtomMatches(atom, text, i) THEN 0
  ELSE 1 + AtomRun(atom, text, i + 1, max - 1)

\* Fewest and most characters a quantified atom takes.
AtomMin(atom) == IF atom.quantifier \in {"*", "?"} THEN 0 ELSE 1
AtomMax(atom, text) == IF atom.quantifier \in {"*", "+"} THEN Len(text) ELSE 1

\* The backtracking matcher.  RegExpMatchEnd: the offset where the match of
\* atoms k.. that starts at i first ends, -1 when there is none; atom k
\* takes the longest run first.  RegExpBacktrack: the same with atom k
\* holding count characters; when the rest does not match after them
\* (RegExpFirst with e = -1) the atom gives one character back.
RECURSIVE RegExpMatchEnd(_, _, _, _)
RECURSIVE RegExpBacktrack(_, _, _, _, _)
RECURSIVE RegExpFirst(_, _, _, _, _, _)
RegExpMatchEnd(atoms, k, text, i) ==
  IF k > Len(atoms) THEN i
  ELSE RegExpBacktrack(atoms, k, text, i, AtomRun(atoms[k], text, i, AtomMax(atoms[k], text)))

RegExpBacktrack(atoms, k, text, i, count) ==
  IF count < AtomMin(atoms[k]) THEN -1
  ELSE RegExpFirst(RegExpMatchEnd(atoms, k + 1, text, i + count), atoms, k, text, i, count)

RegExpFirst(e, atoms, k, text, i, count) ==
  IF e # -1 THEN e ELSE RegExpBacktrack(atoms, k, text, i, count - 1)

\* First offset at or after from where the atoms match, with the match end
\* (RegExpFound: e is the match end for a match that starts at from).
RECURSIVE RegExpSearch(_, _, _)
RECURSIVE RegExpFound(_, _, _, _)
RegExpSearch(atoms, text, from) ==
  IF from > Len(text) THEN [index |-> -1, end |-> -1]
  ELSE RegExpFound(RegExpMatchEnd(atoms, 1, text, from), atoms, text, from)

RegExpFound(e, atoms, text, from) ==
  IF e # -1 THEN [index |-> from, end |-> e] ELSE RegExpSearch(atoms, text, from + 1)

\* tagMatchOf whose capture group runs to the end of the comment.
tagMatchOf_ToCommentEnd(comment, t) ==
  IF t.index = -1 THEN [index |-> -1, length |-> 0, content |-> <<>>]
  ELSE [index |-> t.index, length |-> Len(comment) - t.index,
        content |-> Slice(comment, SpaceStarEnd(comment, t.end), Len(comment))]

\* The match of /<escapedTag>\s*(.*)/i whose tag part matched at t: index
\* of the match, its length, and capture group 1.
tagMatchOf(comment, t) ==
  LET s == SpaceStarEnd(comment, t.end)
      e == DotStarEnd(comment, s)
  IN  IF t.index = -1 THEN [index |-> -1, length |-> 0, content |-> <<>>]
      ELSE [index |-> t.index, length |-> e - t.index, content |-> Slice(comment, s, e)]

\* tagRegex.exec(fullComment) for tagRegex = /<escapedTag>\s*(.*)/i.  The
\* \s*(.*) after the tag matches wherever the tag does, so the match starts
\* at the first offset the escaped tag matches.
tagRegexExec(comment, tag) ==
  tagMatchOf(comment, RegExpSearch(RegExpAtoms(escapeRegExp(tag)), comment, 0))

\* rawContent with the trailing comment syntax removed (a closing */, then a
\* closing docstring quote triple, each with the \s before it), trimmed and
\* lower-cased.
tagContentOf(rawContent) ==
  LET a == StripSuffix(rawContent, Chars("*/"))
      b == IF StartsWithAt(a, Chars("\"\"\""), Len(a) - 3)
           THEN StripSuffix(a, Chars("\"\"\""))
           ELSE StripSuffix(a, Chars("'''"))
  IN  ToLowerCase(Trim(b))

\* new Set(states.map(s => s.toLowerCase()))
StatesSet(states) == {ToLowerCase(s) : s \in states}

\* typeOf with the two outcomes swapped.
typeOf_Swapped(tagContent, rejectedStatesSet) ==
  IF tagContent \in rejectedStatesSet THEN "warning" ELSE "rejected"

\* rejectedStatesSet.has(tagContent) ? 'rejected' : 'warning'
typeOf(tagContent, rejectedStatesSet) ==
  IF tagContent \in rejectedStatesSet THEN "rejected" ELSE "warning"

(***************************************************************************)
(* File-level detector                                                     *)
(***************************************************************************)

\* The line-comment prefix of a file-level pattern /^(\s*)(<prefix>.*)/.
FileLevelPrefix(fileLevelPattern) ==
  IF fileLevelPattern = JS_FILE_LEVEL_COMMENT_PATTERN THEN Chars("//") ELSE Chars("#")

NoFileLevel ==
  [found |-> FALSE, commentEndOffset |-> -1,
   match |-> [tagStartOffset |-> 0, tagEndOffset |-> 0, codeStartOffset |-> 0,
              codeEndOffset |-> 0, type |-> "warning", isFileLevel |-> FALSE]]

\* fileLevelMatchOf with the code span starting at the comment instead of after it.
fileLevelMatchOf_CodeFromComment(text, commentStartOffset, fullComment, tagMatch, type) ==
  LET commentEndOffset == commentStartOffset + Len(fullComment)
      tagStartOffset == commentStartOffset + tagMatch.index
  IN  [found |-> TRUE, commentEndOffset |-> commentEndOffset,
       match |-> [tagStartOffset |-> tagStartOffset,
                  tagEndOffset |-> tagStartOffset + tagMatch.length,
                  codeStartOffset |-> commentStartOffset,
                  codeEndOffset |-> Len(text),
                  type |-> type,
                  isFileLevel |-> TRUE]]

\* fileLevelMatchOf with the code span ending at the end of the next line.
fileLevelMatchOf_NextLineOnly(text, commentStartOffset, fullComment, tagMatch, type) ==
  LET commentEndOffset == commentStartOffset + Len(fullComment)
      tagStartOffset == commentStartOffset + tagMatch.index
      nextNewline == IndexOf(text, <<"\n">>, commentEndOffset + 1)
  IN  [found |-> TRUE, commentEndOffset |-> commentEndOffset,
       match |-> [tagStartOffset |-> tagStartOffset,
                  tagEndOffset |-> tagStartOffset + tagMatch.length,
                  codeStartOffset |-> commentEndOffset,
                  codeEndOffset |-> IF nextNewline # -1 THEN nextNewline ELSE Len(text),
                  type |-> type,
                  isFileLevel |-> TRUE]]

\* The result object checkFileLevelComment returns for the leading comment
\* fullComment that starts at commentStartOffset.
fileLevelMatchOf(text, commentStartOffset, fullComment, tagMatch, type) ==
  LET commentEndOffset == commentStartOffset + Len(fullComment)
      tagStartOffset == commentStartOffset + tagMatch.index
  IN  [found |-> TRUE, commentEndOffset |-> commentEndOffset,
       match |-> [tagStartOffset |-> tagStartOffset,
                  tagEndOffset |-> tagStartOffset + tagMatch.length,
                  codeStartOffset |-> commentEndOffset,
                  codeEndOffset |-> Len(text),
                  type |-> type,
                  isFileLevel |-> TRUE]]

checkFileLevelComment(text, tag, allowedStatesSet, rejectedStatesSet, detectInline, fileLevelPattern, usesHashComments) ==
  LET prefix == FileLevelPrefix(fileLevelPattern)
      leadingWhitespace == SpaceStarEnd(text, 0)
      matched == StartsWithAt(text, prefix, leadingWhitespace)
      fullComment == Slice(text, leadingWhitespace,
                           DotStarEnd(text, leadingWhitespace + Len(prefix)))
      isInline == IF usesHashComments
                  THEN StartsWithAt(fullComment, Chars("#"), 0)
                  ELSE StartsWithAt(fullComment, Chars("//"), 0)
      tagMatch == tagRegexExec(fullComment, tag)
      tagContent == tagContentOf(tagMatch.content)
  IN  IF ~matched THEN NoFileLevel
      ELSE IF isInline /\ ~detectInline THEN NoFileLevel
      ELSE IF tagMatch.index = -1 THEN NoFileLevel
      ELSE IF tagContent \in allowedStatesSet THEN NoFileLevel
      ELSE fileLevelMatchOf(text, leadingWhitespace, fullComment, tagMatch,
                            typeOf(tagContent, rejectedStatesSet))

(***************************************************************************)
(* Lexical skippers                                                        *)
(***************************************************************************)

\* skipStringLoop that stops at any quote, escaped or not.
RECURSIVE skipStringLoop_NoEscapes(_, _, _)
skipStringLoop_NoEscapes(text, i, quoteChar) ==
  IF i >= Len(text) THEN Len(text)
  ELSE IF At(text, i) = quoteChar THEN i + 1
  ELSE skipStringLoop_NoEscapes(text, i + 1, quoteChar)

\* The while loop of skipString, cursor at i.
RECURSIVE skipStringLoop(_, _, _)
skipStringLoop(text, i, quoteChar) ==
  IF i >= Len(text) THEN Len(text)
  ELSE IF At(text, i) = "\\" THEN skipStringLoop(text, i + 2, quoteChar)
  ELSE IF At(text, i) = quoteChar THEN i + 1
  ELSE skipStringLoop(text, i + 1, quoteChar)

\* skipString that steps over the opening quote only.
skipString_QuoteOnly(text, start, quoteChar) == start + 1

skipString(text, start, quoteChar) == skipStringLoop(text, start + 1, quoteChar)

RECURSIVE skipTemplateLoop(_, _, _)
RECURSIVE skipInterpolation(_, _, _, _)

\* skipInterpolation that stops at the first '}', whatever holds it.
RECURSIVE skipInterpolation_FirstClose(_, _, _, _)
skipInterpolation_FirstClose(text, len, i, templateBraceDepth) ==
  IF i >= len THEN i
  ELSE IF At(text, i) = "}" THEN i + 1
  ELSE skipInterpolation_FirstClose(text, len, i + 1, templateBraceDepth)

\* The inner while loop of skipTemplateLiteral over one ${...} expression:
\* the cursor when the loop exits.
skipInterpolation(text, len, i, templateBraceDepth) ==
  IF ~(i < len /\ templateBraceDepth > 0) THEN i
  ELSE LET tc == At(text, i)
       IN  IF tc = "{" THEN skipInterpolation(text, len, i + 1, templateBraceDepth + 1)
           ELSE IF tc = "}" THEN skipInterpolation(text, len, i + 1, templateBraceDepth - 1)
           ELSE IF tc = "\\" THEN skipInterpolation(text, len, i + 2, templateBraceDepth)
           ELSE IF tc = "\"" \/ tc = "'"
                THEN skipInterpolation(text, len, skipString(text, i, tc), templateBraceDepth)
           ELSE IF tc = Backtick
                THEN skipInterpolation(text, len, skipTemplateLoop(text, len, i + 1),
                                       templateBraceDepth)
           ELSE skipInterpolation(text, len, i + 1, templateBraceDepth)

\* The outer while loop of skipTemplateLiteral, cursor at i.
skipTemplateLoop(text, len, i) ==
  IF i >= len THEN len
  ELSE LET c == At(text, i)
       IN  IF c = "\\" THEN skipTemplateLoop(text, len, i + 2)
           ELSE IF c = Backtick THEN i + 1
           ELSE IF c = "$" /\ At(text, i + 1) = "{"
                THEN skipTemplateLoop(text, len, skipInterpolation(text, len, i + 2, 1))
           ELSE skipTemplateLoop(text, len, i + 1)

skipTemplateLiteral(text, start, len) == skipTemplateLoop(text, len, start + 1)

canStartRegex(lastChar) ==
  lastChar \in {"=", "(", "[", ",", ":", ";", "!", "&", "|", "?", "{", "}",
                "+", "-", "*", "%", "<", ">", "~", "^"}

\* (fc >= 97 && fc <= 122) || (fc >= 65 && fc <= 90)
IsAsciiLetter(c) ==
  \E k \in 1..26 : c = UpperLetters[k] \/ c = LowerLetters[k]

\* The flags loop of skipRegexLiteral.
RECURSIVE skipRegexFlags(_, _, _)
skipRegexFlags(text, len, i) ==
  IF i < len /\ IsAsciiLetter(At(text, i)) THEN skipRegexFlags(text, len, i + 1) ELSE i

\* The character-class loop of skipRegexLiteral: the cursor when it exits.
RECURSIVE skipRegexClass(_, _, _)
skipRegexClass(text, len, i) ==
  IF i >= len THEN i
  ELSE IF At(text, i) = "\\" THEN skipRegexClass(text, len, i + 2)
  ELSE IF At(text, i) = "]" THEN i + 1
  ELSE skipRegexClass(text, len, i + 1)

\* The outer while loop of skipRegexLiteral, cursor at i.
RECURSIVE skipRegexLoop(_, _, _, _)
skipRegexLoop(text, start, len, i) ==
  IF i >= len THEN len
  ELSE LET c == At(text, i)
       IN  IF c = "\\" THEN skipRegexLoop(text, start, len, i + 2)
           ELSE IF c = "[" THEN skipRegexLoop(text, start, len, skipRegexClass(text, len, i + 1))
           ELSE IF c = "/" THEN skipRegexFlags(text, len, i + 1)
           ELSE IF c = "\n" \/ c = "\r" THEN start + 1
           ELSE skipRegexLoop(text, start, len, i + 1)

skipRegexLiteral(text, start, len) == skipRegexLoop(text, start, len, start + 1)

hasComplexContentInRange(text, start, end) ==
  \E i \in start..(end - 1) :
    \/ At(text, i) \in {"\"", "'", Backtick}
    \/ At(text, i) = "/" /\ i + 1 < end /\ At(text, i + 1) \in {"/", "*"}

(***************************************************************************)
(* Block extent resolver, C family                                         *)
(***************************************************************************)

\* The characters both scanning loops skip as whitespace (32, 9, 10, 13).
IsBlank(c) == c \in {" ", "\t", "\n", "\r"}

\* The while loop of findBlockEndOffsetCareful, cursor at i.
RECURSIVE carefulLoop(_, _, _, _, _)
carefulLoop(text, len, i, braceDepth, lastSignificant) ==
  IF i >= len THEN len
  ELSE LET char == At(text, i)
           next == At(text, i + 1)
       IN  IF IsBlank(char) THEN carefulLoop(text, len, i + 1, braceDepth, lastSignificant)
           ELSE IF char = "/" /\ next = "/"
                THEN LET n == IndexOf(text, <<"\n">>, i)
                     IN  IF n = -1 THEN len
                         ELSE carefulLoop(text, len, n + 1, braceDepth, lastSignificant)
           ELSE IF char = "/" /\ next = "*"
                THEN LET n == IndexOf(text, Chars("*/"), i + 2)
                     IN  IF n = -1 THEN len
                         ELSE carefulLoop(text, len, n + 2, braceDepth, lastSignificant)
           ELSE IF char = "/" /\ canStartRegex(lastSignificant)
                THEN carefulLoop(text, len, skipRegexLiteral(text, i, len), braceDepth, "/")
           ELSE IF char = Backtick
                THEN carefulLoop(text, len, skipTemplateLiteral(text, i, len), braceDepth, Backtick)
           ELSE IF char = "\"" \/ char = "'"
                THEN carefulLoop(text, len, skipString(text, i, char), braceDepth, char)
           ELSE IF char = "{" THEN carefulLoop(text, len, i + 1, braceDepth + 1, char)
           ELSE IF char = "}"
                THEN IF braceDepth - 1 = 0 THEN i + 1
                     ELSE carefulLoop(text, len, i + 1, braceDepth - 1, char)
           ELSE carefulLoop(text, len, i + 1, braceDepth, char)

findBlockEndOffsetCareful(text, startOffset, len) ==
  carefulLoop(text, len, startOffset + 1, 1, "{")

\* fastLoop that stops at the first closing brace, whatever the depth.
fastLoop_FirstClose(text, len, j, braceDepth) ==
  IF IndexOf(text, <<"}">>, j) = -1 THEN len ELSE IndexOf(text, <<"}">>, j) + 1

\* The fast-path loop of findBlockEndOffset, cursor at j.
RECURSIVE fastLoop(_, _, _, _)
fastLoop(text, len, j, braceDepth) ==
  IF j >= len THEN len
  ELSE IF At(text, j) = "{" THEN fastLoop(text, len, j + 1, braceDepth + 1)
  ELSE IF At(text, j) = "}"
       THEN IF braceDepth - 1 = 0 THEN j + 1 ELSE fastLoop(text, len, j + 1, braceDepth - 1)
  ELSE fastLoop(text, len, j + 1, braceDepth)

\* An opener search that passes over line comments and block comments.
RECURSIVE openerLoop_SkipsComments(_, _, _, _, _)
openerLoop_SkipsComments(text, len, i, parenDepth, lastSignificant) ==
  IF i >= len THEN [returned |-> FALSE, value |-> i]
  ELSE LET char == At(text, i)
           next == At(text, i + 1)
       IN  IF IsBlank(char)
           THEN openerLoop_SkipsComments(text, len, i + 1, parenDepth, lastSignificant)
           ELSE IF char = "/" /\ next = "/"
                THEN openerLoop_SkipsComments(text, len, DotStarEnd(text, i), parenDepth,
                                              lastSignificant)
           ELSE IF char = "/" /\ next = "*"
                THEN openerLoop_SkipsComments(
                       text, len,
                       IF IndexOf(text, <<"*", "/">>, i + 2) = -1 THEN len
                       ELSE IndexOf(text, <<"*", "/">>, i + 2) + 2,
                       parenDepth, lastSignificant)
           ELSE IF char = "/" /\ canStartRegex(lastSignificant)
                THEN openerLoop_SkipsComments(text, len, skipRegexLiteral(text, i, len),
                                              parenDepth, "/")
           ELSE IF char = "\"" \/ char = "'" \/ char = Backtick
                THEN openerLoop_SkipsComments(
                       text, len,
                       IF char = Backtick THEN skipTemplateLiteral(text, i, len)
                       ELSE skipString(text, i, char),
                       parenDepth, char)
           ELSE IF char = "(" THEN openerLoop_SkipsComments(text, len, i + 1, parenDepth + 1, char)
           ELSE IF char = ")" THEN openerLoop_SkipsComments(text, len, i + 1, parenDepth - 1, char)
           ELSE IF char = "{" /\ parenDepth = 0 THEN [returned |-> FALSE, value |-> i]
           ELSE IF char = "{" THEN openerLoop_SkipsComments(text, len, i + 1, parenDepth, char)
           ELSE IF char = ";" /\ parenDepth = 0 THEN [returned |-> TRUE, value |-> i + 1]
           ELSE openerLoop_SkipsComments(text, len, i + 1, parenDepth, char)

\* The brace-opener search of findBlockEndOffset, cursor at i: either the
\* function returns from inside the loop (returned, with its value), or the
\* loop ends with the cursor at value.
RECURSIVE openerLoop(_, _, _, _, _)
openerLoop(text, len, i, parenDepth, lastSignificant) ==
  IF i >= len THEN [returned |-> FALSE, value |-> i]
  ELSE LET char == At(text, i)
           next == At(text, i + 1)
       IN  IF IsBlank(char) THEN openerLoop(text, len, i + 1, parenDepth, lastSignificant)
           ELSE IF char = "/" /\ canStartRegex(lastSignificant) /\ next # "/" /\ next # "*"
                THEN openerLoop(text, len, skipRegexLiteral(text, i, len), parenDepth, "/")
           ELSE IF char = "\"" \/ char = "'" \/ char = Backtick
                THEN openerLoop(text, len,
                                IF char = Backtick THEN skipTemplateLiteral(text, i, len)
                                ELSE skipString(text, i, char),
                                parenDepth, char)
           ELSE IF char = "(" THEN openerLoop(text, len, i + 1, parenDepth + 1, char)
           ELSE IF char = ")" THEN openerLoop(text, len, i + 1, parenDepth - 1, char)
           ELSE IF char = "{" /\ parenDepth = 0 THEN [returned |-> FALSE, value |-> i]
           ELSE IF char = "{" THEN openerLoop(text, len, i + 1, parenDepth, char)
           ELSE IF char = ";" /\ parenDepth = 0 THEN [returned |-> TRUE, value |-> i + 1]
           ELSE openerLoop(text, len, i + 1, parenDepth, char)

\* findBlockEndOffset that returns the offset of the ';' that ends a
\* statement, not the offset past it.
findBlockEndOffset_AtSemicolon(text, startOffset) ==
  LET len == Len(text)
      opener == openerLoop(text, len, startOffset, 0, NoChar)
      openingBraceOffset == opener.value
  IN  IF opener.returned THEN opener.value - 1
      ELSE IF openingBraceOffset >= len \/ At(text, openingBraceOffset) # "{" THEN len
      ELSE IF ~hasComplexContentInRange(text, openingBraceOffset + 1, len)
           THEN fastLoop(text, len, openingBraceOffset + 1, 1)
      ELSE findBlockEndOffsetCareful(text, openingBraceOffset, len)

findBlockEndOffset(text, startOffset) ==
  LET len == Len(text)
      opener == openerLoop(text, len, startOffset, 0, NoChar)
      openingBraceOffset == opener.value
  IN  IF opener.returned THEN opener.value
      ELSE IF openingBraceOffset >= len \/ At(text, openingBraceOffset) # "{" THEN len
      ELSE IF ~hasComplexContentInRange(text, openingBraceOffset + 1, len)
           THEN fastLoop(text, len, openingBraceOffset + 1, 1)
      ELSE findBlockEndOffsetCareful(text, openingBraceOffset, len)

(***************************************************************************)
(* Block extent resolver, Python                                           *)
(***************************************************************************)

\* Offset of the first "\n" at or after pos, or the text length.
RECURSIVE LineEnd(_, _)
LineEnd(text, pos) ==
  IF pos < Len(text) /\ At(text, pos) # "\n" THEN LineEnd(text, pos + 1) ELSE pos

\* Start of the line that contains offset pos.
RECURSIVE LineStart(_, _)
LineStart(text, pos) ==
  IF pos > 0 /\ At(text, pos - 1) # "\n" THEN LineStart(text, pos - 1) ELSE pos

\* The indentation loop: columns (tab = 4) and the offset after the indentation.
RECURSIVE Indent(_, _, _)
Indent(text, pos, columns) ==
  IF pos < Len(text) /\ At(text, pos) = " " THEN Indent(text, pos + 1, columns + 1)
  ELSE IF pos < Len(text) /\ At(text, pos) = "\t" THEN Indent(text, pos + 1, columns + 4)
  ELSE [columns |-> columns, pos |-> pos]

\* The line loop of findPythonBlockEndOffset, next line starting at pos.
RECURSIVE pythonLoop(_, _, _, _)
pythonLoop(text, defIndent, pos, lastContentEnd) ==
  IF pos >= Len(text) THEN Len(text)
  ELSE LET ind == Indent(text, pos, 0)
           lineIndent == ind.columns
           linePos == ind.pos
       IN  IF linePos >= Len(text) \/ At(text, linePos) = "\n"
           THEN pythonLoop(text, defIndent, linePos + 1, lastContentEnd)
           ELSE IF At(text, linePos) = "#"
                THEN IF lineIndent > defIndent
                     THEN pythonLoop(text, defIndent, LineEnd(text, linePos) + 1,
                                     LineEnd(text, linePos))
                     ELSE pythonLoop(text, defIndent, linePos + 1, lastContentEnd)
           ELSE IF lineIndent <= defIndent THEN lastContentEnd
           ELSE pythonLoop(text, defIndent, LineEnd(text, linePos) + 1,
                           LineEnd(text, linePos))

findPythonBlockEndOffset(text, startOffset) ==
  LET defIndent == Indent(text, LineStart(text, startOffset), 0).columns
      pos == LineEnd(text, startOffset)
  IN  pythonLoop(text, defIndent, IF pos < Len(text) THEN pos + 1 ELSE pos, pos)

(***************************************************************************)
(* Tag scanner: findAiGenDiagnostics                                       *)
(***************************************************************************)

\* The defaults of the destructured options.
DefaultOptions ==
  [detectInline |-> TRUE, detectFileLevel |-> TRUE, tag |-> Chars("@ai-gen"),
   allowedStates |-> {Chars("ok")},
   rejectedStates |-> {Chars("rejected"), Chars("reject")},
   language |-> "javascript"]

isPython(opts) == opts.language = "python"
isHash(opts) == opts.language = "hash"

docBlockPattern(opts) ==
  IF isPython(opts) THEN PY_DOC_BLOCK_PATTERN
  ELSE IF isHash(opts) THEN HASH_ALL_COMMENTS_PATTERN
  ELSE JS_DOC_BLOCK_PATTERN

allCommentsPattern(opts) ==
  IF isPython(opts) THEN PY_ALL_COMMENTS_PATTERN
  ELSE IF isHash(opts) THEN HASH_ALL_COMMENTS_PATTERN
  ELSE JS_ALL_COMMENTS_PATTERN

fileLevelCommentPattern(opts) ==
  IF isPython(opts) THEN PY_FILE_LEVEL_COMMENT_PATTERN
  ELSE IF isHash(opts) THEN HASH_FILE_LEVEL_COMMENT_PATTERN
  ELSE JS_FILE_LEVEL_COMMENT_PATTERN

mainPattern(opts) ==
  IF opts.detectInline THEN allCommentsPattern(opts) ELSE docBlockPattern(opts)

\* fileLevelResult that runs the detector whatever detectFileLevel says.
fileLevelResult_IgnoresFlag(text, opts) ==
  checkFileLevelComment(text, opts.tag, StatesSet(opts.allowedStates),
                        StatesSet(opts.rejectedStates), opts.detectInline,
                        fileLevelCommentPattern(opts), isPython(opts) \/ isHash(opts))

\* The file-level step of findAiGenDiagnostics.
fileLevelResult(text, opts) ==
  IF opts.detectFileLevel
  THEN checkFileLevelComment(text, opts.tag, StatesSet(opts.allowedStates),
                             StatesSet(opts.rejectedStates), opts.detectInline,
                             fileLevelCommentPattern(opts), isPython(opts) \/ isHash(opts))
  ELSE NoFileLevel

\* const isInlineComment = (isPython || isHash) ? startsWith('#') : startsWith('//')
isInlineComment(fullComment, opts) ==
  IF isPython(opts) \/ isHash(opts)
  THEN StartsWithAt(fullComment, Chars("#"), 0)
  ELSE StartsWithAt(fullComment, Chars("//"), 0)

\* nextLineEnd that runs to the end of the text.
nextLineEnd_ToEndOfText(text, codeStartOffset) == Len(text)

\* The next-line rule of an inline comment.
nextLineEnd(text, codeStartOffset) ==
  LET nextNewline == IndexOf(text, <<"\n">>, codeStartOffset)
  IN  IF nextNewline # -1 THEN nextNewline ELSE Len(text)

\* codeEndOffsetOf that sends every comment to the block resolvers.
codeEndOffsetOf_AlwaysBlock(text, fullComment, codeStartOffset, opts) ==
  IF isPython(opts) THEN findPythonBlockEndOffset(text, codeStartOffset)
  ELSE findBlockEndOffset(text, codeStartOffset)

\* The code span's end for a comment followed by code at codeStartOffset.
codeEndOffsetOf(text, fullComment, codeStartOffset, opts) ==
  IF isInlineComment(fullComment, opts) THEN nextLineEnd(text, codeStartOffset)
  ELSE IF isPython(opts) THEN findPythonBlockEndOffset(text, codeStartOffset)
  ELSE findBlockEndOffset(text, codeStartOffset)

\* dropsAllowed that keeps every tagged comment.
dropsAllowed_Never(tagContent, allowedStatesSet) == FALSE

\* Whether the loop body drops a comment whose state is allowed.
dropsAllowed(tagContent, allowedStatesSet) == tagContent \in allowedStatesSet

\* codeMatchOf that takes whatever character stands at the comment's end.
codeMatchOf_AnyCharacter(text, commentEndOffset) ==
  IF commentEndOffset < Len(text)
  THEN [match |-> [index |-> commentEndOffset, end |-> commentEndOffset + 1],
        lastIndex |-> commentEndOffset + 1]
  ELSE [match |-> NoMatch, lastIndex |-> 0]

\* NON_WHITESPACE_PATTERN.lastIndex = commentEndOffset;
\* NON_WHITESPACE_PATTERN.exec(text)
codeMatchOf(text, commentEndOffset) ==
  RegExpExec(text, NON_WHITESPACE_PATTERN, commentEndOffset)

\* The loop body of findAiGenDiagnostics for the comment match m: whether a
\* match is pushed, the match, and whether NON_WHITESPACE_PATTERN was used
\* and the lastIndex that use leaves in it.
processComment(text, opts, m) ==
  LET fullComment == Slice(text, m.index, m.end)
      commentStartOffset == m.index
      commentEndOffset == commentStartOffset + Len(fullComment)
      tagMatch == tagRegexExec(fullComment, opts.tag)
      tagContent == tagContentOf(tagMatch.content)
      tagStartOffset == commentStartOffset + tagMatch.index
      code == codeMatchOf(text, commentEndOffset)
      codeStartOffset == code.match.index
      none == [push |-> FALSE, match |-> NoFileLevel.match,
               usedNonWhitespace |-> FALSE, nonWhitespaceLastIndex |-> 0]
  IN  IF tagMatch.index = -1 THEN none
      ELSE IF dropsAllowed(tagContent, StatesSet(opts.allowedStates)) THEN none
      ELSE [push |-> codeStartOffset # -1,
            match |-> [tagStartOffset |-> tagStartOffset,
                       tagEndOffset |-> tagStartOffset + tagMatch.length,
                       codeStartOffset |-> codeStartOffset,
                       codeEndOffset |-> IF codeStartOffset = -1 THEN -1
                                         ELSE codeEndOffsetOf(text, fullComment,
                                                              codeStartOffset, opts),
                       type |-> typeOf(tagContent, StatesSet(opts.rejectedStates)),
                       isFileLevel |-> FALSE],
            usedNonWhitespace |-> TRUE,
            nonWhitespaceLastIndex |-> code.lastIndex]

\* A scan run alone, from the loop head with the pattern's lastIndex at
\* lastIdx: the list it returns when no token is requested.
RECURSIVE scanLoop(_, _, _, _, _)
scanLoop(text, opts, lastIdx, fileLevelEnd, acc) ==
  LET r == RegExpExec(text, mainPattern(opts), lastIdx)
      p == processComment(text, opts, r.match)
  IN  IF r.match.index = -1 THEN acc
      ELSE IF fileLevelEnd # -1 /\ r.match.index < fileLevelEnd
           THEN scanLoop(text, opts, r.lastIndex, fileLevelEnd, acc)
      ELSE scanLoop(text, opts, r.lastIndex, fileLevelEnd,
                    IF p.push THEN Append(acc, p.match) ELSE acc)

\* findAiGenDiagnostics(text, options) run to completion without interleaving.
findAiGenDiagnostics(text, opts) ==
  LET fl == fileLevelResult(text, opts)
  IN  scanLoop(text, opts, 0, IF fl.found THEN fl.commentEndOffset ELSE -1,
               IF fl.found THEN <<fl.match>> ELSE <<>>)

(***************************************************************************)
(* Inputs                                                                  *)
(***************************************************************************)

\* Largest number of units (a comment with the code after it) in a text.
MaxUnits == 2
\* Largest number of blank lines before the first unit.
MaxLead == 1

UnitSeqs(units, n) == UNION {[1..k -> units] : k \in 0..n}

Lead(n) == [k \in 1..n |-> "\n"]

TextsOf(units, n) ==
  {Lead(l) \o Flatten(us) : l \in 0..MaxLead, us \in UnitSeqs(units, n)}

JsUnits ==
  {Chars("/** @ai-gen */\nf(){}\n"),
   Chars("/** @AI-GEN Ok */ a;\n"),
   Chars("/**\n * @ai-gen Reject\n */\nfunction g(o={}){if(o){}}\n"),
   Chars("// @ai-gen ok\n"),
   Chars("// @ai-gen REJECTED\nif(x){\ny\n}\n")}

PyUnits ==
  {Chars("\"\"\" @ai-gen \"\"\"\ndef f():\n  pass\n"),
   Chars("''' @ai-gen OK '''\ny = 1\n"),
   Chars("# @ai-gen\ndef g():\n  pass\n"),
   Chars("# @ai-gen reject")}

HashUnits ==
  {Chars("# @ai-gen\nx\n"),
   Chars("# @ai-gen Ok")}

UnitsOf(language) ==
  CASE language = "javascript" -> JsUnits
    [] language = "python" -> PyUnits
    [] language = "hash" -> HashUnits

Languages == {"javascript", "python", "hash"}

\* The options a caller passes: the fields findAiGenDiagnostics destructures
\* and includeAllowed, which updateDiagnostics passes as well.
OptionsOf(language) ==
  {[DefaultOptions EXCEPT !.language = language, !.detectInline = di,
                          !.detectFileLevel = dfl] @@ [includeAllowed |-> FALSE]
     : di \in BOOLEAN, dfl \in BOOLEAN}
  \cup {[DefaultOptions EXCEPT !.language = language] @@ [includeAllowed |-> TRUE]}

Inputs ==
  UNION {{[text |-> t, options |-> o] : t \in TextsOf(UnitsOf(l), MaxUnits), o \in OptionsOf(l)}
           : l \in Languages}

\* Largest number of units in the text of the second scan.
MaxOtherUnits == 1

OtherUnit(language) ==
  CASE language = "javascript" -> Chars("/** @ai-gen */\nf(){}\n")
    [] language = "python" -> Chars("# @ai-gen\nx = 1\n")
    [] language = "hash" -> Chars("# @ai-gen\nx\n")

\* The texts of the second scan, which runs under the same settings.
OtherTexts(language) ==
  {Flatten([k \in 1..n |-> OtherUnit(language)]) : n \in 0..MaxOtherUnits}

(***************************************************************************)
(* State                                                                   *)
(***************************************************************************)

\* Two calls of findAiGenDiagnostics on one event loop.
Scans == {1, 2}

\* The calls that pass the optional token argument.
WithToken == {1}

VARIABLES
  text,        \* text[s]: argument of scan s
  options,     \* options[s]: argument of scan s
  token,       \* token[s]: isCancellationRequested of the token of scan s
  tokenAtCall, \* token[s] as it was when scan s was called
  pc,          \* "idle", "loop" (at the while head), "await" (yielded), "done"
  matches,     \* the local matches of scan s
  fileLevelCommentEndOffset,
  match,       \* the comment match scan s holds across its await, else NoMatch
  result,      \* the list scan s resolved to
  lastIndex,   \* lastIndex of each module-level g-flagged pattern
  running      \* the scan that is executing, 0 when the event loop is free

scanVars == <<text, options, token, tokenAtCall, pc, matches,
              fileLevelCommentEndOffset, match, result, lastIndex, running>>

\* One resolver call site examined on its own: the text around it and what
\* each function returned for it (NotCalled until the function has run).
VARIABLES
  parts,       \* the text as a sequence of segments [kind, chars]
  language,    \* the language option the text is scanned under
  tag,         \* the tag option the text is scanned under
  startOffset, \* codeStartOffset: the first non-whitespace after the comment
  scanned,     \* whether findAiGenDiagnostics has run on the text
  found,       \* the list it returned
  end,         \* what the language's block resolver returned for startOffset
  carefulEnd,  \* what findBlockEndOffsetCareful returned for the body opener
  skipEnd      \* what the skipper of the construct at startOffset returned

resolverVars ==
  <<parts, language, tag, startOffset, scanned, found, end, carefulEnd, skipEnd>>

\* The editor layer (src/src/extension.ts): the documents of the workspace,
\* the module-level maps of the extension, and the analyses it has started.
VARIABLES
  lifecycle,       \* lifecycle[d]: "unopened", "open" or "closed"
  version,         \* version[d]: document.version; the text changes with it
  visible,         \* visible[d]: the document is shown in a visible editor
  configuration,   \* generation of the 'ackAi' settings
  tokenSources,    \* tokenSources[d]: the analysis that holds the entry, 0 if none
  debounceTimers,  \* debounceTimers[d]: the timer handle of the entry, 0 if none
  timers,          \* the timers set and neither fired nor cleared
  decorationCache, \* decorationCache[d]: an entry or Undefined
  analyses,        \* one record for each updateDiagnostics scheduled so far
  diagnostics,     \* diagnostics[d]: what diagnosticCollection holds for d
  decorations      \* decorations[d]: what the editors of d were last given

editorVars ==
  <<lifecycle, version, visible, configuration, tokenSources, debounceTimers,
    timers, decorationCache, analyses, diagnostics, decorations>>

vars == <<scanVars, resolverVars, editorVars>>

NotCalled == -2

\* No resolver call site is under examination.
ResolverIdle ==
  /\ parts = <<>>
  /\ language = "javascript"
  /\ tag = DefaultOptions.tag
  /\ startOffset = 0
  /\ scanned = FALSE
  /\ found = <<>>
  /\ end = NotCalled
  /\ carefulEnd = NotCalled
  /\ skipEnd = NotCalled

\* No scan has been called.
ScanIdle ==
  /\ token = [s \in Scans |-> FALSE]
  /\ tokenAtCall = [s \in Scans |-> FALSE]
  /\ pc = [s \in Scans |-> "idle"]
  /\ matches = [s \in Scans |-> <<>>]
  /\ fileLevelCommentEndOffset = [s \in Scans |-> -1]
  /\ match = [s \in Scans |-> NoMatch]
  /\ result = [s \in Scans |-> <<>>]
  /\ lastIndex = [p \in GlobalPatterns |-> 0]
  /\ running = 0

\* Number of documents of the workspace.
MaxDocs == 2

Docs == 1..MaxDocs

\* Map.get of a key the map does not hold; also the ranges of an editor
\* that was given none.
Undefined == [version |-> 0, textVersion |-> 0, configuration |-> 0]

\* The extension after activate() with no active editor: empty maps, nothing
\* scheduled, no document opened yet.
EditorIdle ==
  /\ lifecycle = [d \in Docs |-> "unopened"]
  /\ version = [d \in Docs |-> 1]
  /\ visible = [d \in Docs |-> FALSE]
  /\ configuration = 1
  /\ tokenSources = [d \in Docs |-> 0]
  /\ debounceTimers = [d \in Docs |-> 0]
  /\ timers = {}
  /\ decorationCache = [d \in Docs |-> Undefined]
  /\ analyses = <<>>
  /\ diagnostics = [d \in Docs |-> Undefined]
  /\ decorations = [d \in Docs |-> Undefined]

Init ==
  /\ \E a \in Inputs :
       \E b \in OtherTexts(a.options.language) :
         /\ text = <<a.text, b>>
         /\ options = <<a.options, a.options>>
  /\ ScanIdle
  /\ ResolverIdle
  /\ EditorIdle

(***************************************************************************)
(* Actions                                                                 *)
(***************************************************************************)

\* The caller of scan s requests cancellation (other code runs only while
\* no scan is executing).
Cancel(s) ==
  /\ s \in WithToken
  /\ running = 0
  /\ pc[s] # "done"
  /\ ~token[s]
  /\ token' = [token EXCEPT ![s] = TRUE]
  /\ UNCHANGED <<text, options, tokenAtCall, pc, matches,
                 fileLevelCommentEndOffset, match, result, lastIndex, running>>
  /\ UNCHANGED <<resolverVars, editorVars>>

\* Call without the reset of mainPattern.lastIndex.
Call_KeepsLastIndex(s) ==
  /\ running = 0
  /\ pc[s] = "idle"
  /\ LET fl == fileLevelResult(text[s], options[s])
     IN  /\ matches' = [matches EXCEPT ![s] = IF fl.found THEN <<fl.match>> ELSE <<>>]
         /\ fileLevelCommentEndOffset' =
              [fileLevelCommentEndOffset EXCEPT
                 ![s] = IF fl.found THEN fl.commentEndOffset ELSE -1]
  /\ tokenAtCall' = [tokenAtCall EXCEPT ![s] = token[s]]
  /\ pc' = [pc EXCEPT ![s] = "loop"]
  /\ running' = s
  /\ UNCHANGED <<text, options, token, match, result, lastIndex>>
  /\ UNCHANGED <<resolverVars, editorVars>>

\* The call of findAiGenDiagnostics up to the while loop.
Call(s) ==
  /\ running = 0
  /\ pc[s] = "idle"
  /\ LET fl == fileLevelResult(text[s], options[s])
     IN  /\ matches' = [matches EXCEPT ![s] = IF fl.found THEN <<fl.match>> ELSE <<>>]
         /\ fileLevelCommentEndOffset' =
              [fileLevelCommentEndOffset EXCEPT
                 ![s] = IF fl.found THEN fl.commentEndOffset ELSE -1]
  /\ lastIndex' = [lastIndex EXCEPT ![mainPattern(options[s])] = 0]
  /\ tokenAtCall' = [tokenAtCall EXCEPT ![s] = token[s]]
  /\ pc' = [pc EXCEPT ![s] = "loop"]
  /\ running' = s
  /\ UNCHANGED <<text, options, token, match, result>>
  /\ UNCHANGED <<resolverVars, editorVars>>

\* exec of a pattern without the g flag: the search starts at 0 and lastIndex
\* stays as it is.
Exec_WithoutGlobalFlag(s) ==
  [match |-> RegExpExec(text[s], mainPattern(options[s]), 0).match,
   lastIndex |-> lastIndex[mainPattern(options[s])]]

\* mainPattern.exec(text) at the while head of scan s.
Exec(s) == RegExpExec(text[s], mainPattern(options[s]), lastIndex[mainPattern(options[s])])

AtLoopHead(s) == running = s /\ pc[s] = "loop"

\* IsFileLevelComment that holds of no comment.
IsFileLevelComment_Never(s, m) == FALSE

\* fileLevelCommentEndOffset !== -1 && match.index < fileLevelCommentEndOffset
IsFileLevelComment(s, m) ==
  fileLevelCommentEndOffset[s] # -1 /\ m.index < fileLevelCommentEndOffset[s]

\* The loop body after the time-slicing check, for the comment match m.
Body(s, m, li) ==
  LET p == processComment(text[s], options[s], m)
  IN  /\ matches' = [matches EXCEPT ![s] = IF p.push THEN Append(@, p.match) ELSE @]
      /\ lastIndex' = IF p.usedNonWhitespace
                      THEN [li EXCEPT ![NON_WHITESPACE_PATTERN] = p.nonWhitespaceLastIndex]
                      ELSE li

\* exec returns null: the loop ends and the scan returns matches.
Return(s) ==
  /\ AtLoopHead(s)
  /\ Exec(s).match.index = -1
  /\ lastIndex' = [lastIndex EXCEPT ![mainPattern(options[s])] = Exec(s).lastIndex]
  /\ result' = [result EXCEPT ![s] = matches[s]]
  /\ pc' = [pc EXCEPT ![s] = "done"]
  /\ running' = 0
  /\ UNCHANGED <<text, options, token, tokenAtCall, matches,
                 fileLevelCommentEndOffset, match>>
  /\ UNCHANGED <<resolverVars, editorVars>>

\* The comment is the file-level comment: continue.
SkipFileLevel(s) ==
  /\ AtLoopHead(s)
  /\ Exec(s).match.index # -1
  /\ IsFileLevelComment(s, Exec(s).match)
  /\ lastIndex' = [lastIndex EXCEPT ![mainPattern(options[s])] = Exec(s).lastIndex]
  /\ UNCHANGED <<text, options, token, tokenAtCall, pc, matches,
                 fileLevelCommentEndOffset, match, result, running>>
  /\ UNCHANGED <<resolverVars, editorVars>>

\* The cancellation check finds the token requested: return [].
ReturnCancelled(s) ==
  /\ AtLoopHead(s)
  /\ Exec(s).match.index # -1
  /\ ~IsFileLevelComment(s, Exec(s).match)
  /\ token[s]
  /\ lastIndex' = [lastIndex EXCEPT ![mainPattern(options[s])] = Exec(s).lastIndex]
  /\ result' = [result EXCEPT ![s] = <<>>]
  /\ pc' = [pc EXCEPT ![s] = "done"]
  /\ running' = 0
  /\ UNCHANGED <<text, options, token, tokenAtCall, matches,
                 fileLevelCommentEndOffset, match>>
  /\ UNCHANGED <<resolverVars, editorVars>>

\* A yield placed after the loop body: the match is appended, then the scan
\* awaits.
Yield_AfterBody(s) ==
  /\ AtLoopHead(s)
  /\ Exec(s).match.index # -1
  /\ ~IsFileLevelComment(s, Exec(s).match)
  /\ ~token[s]
  /\ Body(s, Exec(s).match,
          [lastIndex EXCEPT ![mainPattern(options[s])] = Exec(s).lastIndex])
  /\ match' = [match EXCEPT ![s] = Exec(s).match]
  /\ pc' = [pc EXCEPT ![s] = "await"]
  /\ running' = 0
  /\ UNCHANGED <<text, options, token, tokenAtCall,
                 fileLevelCommentEndOffset, result>>
  /\ UNCHANGED <<resolverVars, editorVars>>

\* More than YIELD_INTERVAL_MS have passed: await setImmediate, holding match.
Yield(s) ==
  /\ AtLoopHead(s)
  /\ Exec(s).match.index # -1
  /\ ~IsFileLevelComment(s, Exec(s).match)
  /\ ~token[s]
  /\ lastIndex' = [lastIndex EXCEPT ![mainPattern(options[s])] = Exec(s).lastIndex]
  /\ match' = [match EXCEPT ![s] = Exec(s).match]
  /\ pc' = [pc EXCEPT ![s] = "await"]
  /\ running' = 0
  /\ UNCHANGED <<text, options, token, tokenAtCall, matches,
                 fileLevelCommentEndOffset, result>>
  /\ UNCHANGED <<resolverVars, editorVars>>

\* No yield is due: the loop body runs on the comment just found.
Process(s) ==
  /\ AtLoopHead(s)
  /\ Exec(s).match.index # -1
  /\ ~IsFileLevelComment(s, Exec(s).match)
  /\ ~token[s]
  /\ Body(s, Exec(s).match,
          [lastIndex EXCEPT ![mainPattern(options[s])] = Exec(s).lastIndex])
  /\ UNCHANGED <<text, options, token, tokenAtCall, pc,
                 fileLevelCommentEndOffset, match, result, running>>
  /\ UNCHANGED <<resolverVars, editorVars>>

\* The awaited promise resolves: the loop body runs on the held comment.
Resume(s) ==
  /\ running = 0
  /\ pc[s] = "await"
  /\ Body(s, match[s], lastIndex)
  /\ match' = [match EXCEPT ![s] = NoMatch]
  /\ pc' = [pc EXCEPT ![s] = "loop"]
  /\ running' = s
  /\ UNCHANGED <<text, options, token, tokenAtCall,
                 fileLevelCommentEndOffset, result>>
  /\ UNCHANGED <<resolverVars, editorVars>>

Next ==
  \E s \in Scans :
    \/ Cancel(s)
    \/ Call(s)
    \/ Return(s)
    \/ SkipFileLevel(s)
    \/ ReturnCancelled(s)
    \/ Yield(s)
    \/ Process(s)
    \/ Resume(s)

Spec == Init /\ [][Next]_vars

(***************************************************************************)
(* Scans one after the other                                               *)
(***************************************************************************)

\* Scan 1 is the earlier call and scan 2 the later one; either may have the
\* longer text.
SeqInit ==
  /\ \E a \in Inputs :
       \E b \in OtherTexts(a.options.language) :
         /\ text \in {<<a.text, b>>, <<b, a.text>>}
         /\ options = <<a.options, a.options>>
  /\ ScanIdle
  /\ ResolverIdle
  /\ EditorIdle

\* The later scan is called once the earlier one has returned.
SeqCall(s) ==
  /\ s = 2 => pc[1] = "done"
  /\ Call(s)

SeqNext ==
  \E s \in Scans :
    \/ Cancel(s)
    \/ SeqCall(s)
    \/ Return(s)
    \/ SkipFileLevel(s)
    \/ ReturnCancelled(s)
    \/ Yield(s)
    \/ Process(s)
    \/ Resume(s)

SeqSpec == SeqInit /\ [][SeqNext]_vars

(***************************************************************************)
(* The block resolvers on their own                                        *)
(***************************************************************************)

\* A text is built from segments, so that a property can name the comment,
\* the literals, a type annotation and the text after the governed block.
Seg(kind, str) == [kind |-> kind, chars |-> Chars(str)]

Render(ps) == Flatten([k \in 1..Len(ps) |-> ps[k].chars])

\* Total length of the segments of one kind.
RECURSIVE KindLen(_, _)
KindLen(ps, kind) ==
  IF ps = <<>> THEN 0
  ELSE (IF Head(ps).kind = kind THEN Len(Head(ps).chars) ELSE 0) + KindLen(Tail(ps), kind)

IsBrace(c) == c \in {"{", "}"}
NotBrace(c) == ~IsBrace(c)

\* The same text with the braces inside its literals removed.
PlainOf(ps) ==
  Flatten([k \in 1..Len(ps) |->
             IF ps[k].kind = "literal" THEN SelectSeq(ps[k].chars, NotBrace)
             ELSE ps[k].chars])

\* String and template literals that hold braces.
Literals ==
  {Chars("\"{\""),
   Chars("'}'"),
   Chars("\"\\\"}{\""),
   <<Backtick>> \o Chars("{") \o <<Backtick>>,
   <<Backtick>> \o Chars("a${ {b:1}.b }}") \o <<Backtick>>,
   <<Backtick>> \o Chars("${'}'}") \o <<Backtick>>,
   <<Backtick>> \o Chars("${") \o <<Backtick>> \o Chars("{") \o <<Backtick>>
     \o Chars("}") \o <<Backtick>>}

\* Code around one literal: before it, after it up to the end of the block,
\* and after the block.
LiteralFrames ==
  {<<"f(){a=", ";}", "\nb{}">>,
   <<"f(o=", "){c}", "\n">>,
   <<"class A{m(){return ", "}}", "\nx">>}

LiteralBlocks ==
  {<<Seg("code", fr[1]), [kind |-> "literal", chars |-> lit], Seg("code", fr[2]),
     Seg("tail", fr[3])>> : fr \in LiteralFrames, lit \in Literals}

\* Functions with a type annotation that holds braces between the parameter
\* list and the body.
TypedFunctions ==
  {<<Seg("code", "f(a,r=[])"), Seg("annotation", ann), Seg("code", body), Seg("tail", tl)>>
     : ann \in {":P<{k:s}>", ":P<a&{_id:s;}>"},
       body \in {"=>{b}", "{return{a:1}}"},
       tl \in {"\n", "\nz{}"}}

\* Blocks and statements without literals.
PlainBlocks ==
  {<<Seg("code", c), Seg("tail", tl)>>
     : c \in {"f(){}", "f(o={}){if(o){}}", "f(a,b={c:{}}){a}", "class A{m(){}}",
              "x=5;", "f(a;b);", "for(;;)a;", "for(;;){a;}", "f(", "f(){",
              "{x=/}/}", "{a/b}", "{r=/[/}]/g;}"},
       tl \in {"", "\nz{}"}}

CommentsOf(lang) ==
  IF lang = "python" THEN {<<>>, <<Seg("comment", "\"\"\" @ai-gen \"\"\"\n")>>}
  ELSE {<<>>, <<Seg("comment", "/** @ai-gen */\n")>>}

\* Largest number of lines after the declaration line and its body.
MaxAfter == 1

AfterLines == {Flatten([k \in 1..n |-> Chars("    z\n")]) : n \in 0..MaxAfter}

\* Python: a declaration line, a deeper body, a line at or below the
\* declaration's indentation, and what follows it.
PythonBlocks ==
  UNION {{<<[kind |-> "code",
             chars |-> Chars(decl[1]) \o Chars(body) \o Chars(sib) \o after]>>
            : body \in {"", "    pass\n", "    a\n\n    # in\n", "\tpass\n"},
              sib \in decl[2],
              after \in AfterLines}
           : decl \in {<<"def f():\n", {"", "x\n", "# c\n", "#c\n", "#\n"}>>,
                       <<"  x = 1\n", {"", "  y\n", "y\n", "  # c\n", "# c\n", " #c\n"}>>}}

\* Tags with regex metacharacters and the empty tag, over comments that hold
\* the tag, the tag in another case, a text only a regex reading of the tag
\* matches, or the default tag.
CustomTags == {Chars("@a.i"), Chars("@to+"), <<>>}

TagSites ==
  {[language |-> "javascript", tag |-> t,
    parts |-> <<[kind |-> "comment", chars |-> Chars("/** ") \o Chars(w) \o Chars(" */\n")],
                Seg("tagged", "f(){}\n")>>]
     : t \in CustomTags,
       w \in {"@a.i", "@A.I", "@axi", "@to+", "@TO+", "@too", "@ai-gen"}}

\* Tagged comments with a state text on the tag's line, below it, or on both.
StateSites ==
  {[language |-> "javascript", tag |-> DefaultOptions.tag,
    parts |-> <<Seg("comment", c), Seg("governed", "f(){}\n")>>]
     : c \in {"/** @ai-gen ok */\n", "/** @ai-gen*/\n", "/**\n * @ai-gen OK\n */\n",
              "/**\n * @ai-gen\n */\n", "/** @ai-gen\n ok */\n",
              "/**\n * @ai-gen ok\n * more\n */\n", "/**\n * @ai-gen Reject\n * why\n */\n",
              "/**\n * @ai-gen\n * ok\n */\n", "/** @ai-gen rejected\r\n */\n"}}
  \cup {[language |-> "python", tag |-> DefaultOptions.tag,
         parts |-> <<Seg("comment", c), Seg("governed", "def f():\n  pass\n")>>]
          : c \in {"\"\"\" @ai-gen ok \"\"\"\n", "\"\"\"\n@ai-gen ok\nmore\n\"\"\"\n",
                   "'''\n@ai-gen reject\n'''\n", "'''@ai-gen\nreject\nit'''\n"}}

\* Constructs that never close: strings, template literals, comments, a block.
UnterminatedLiterals ==
  {Chars("\"a;}"),
   Chars("'a;}\\"),
   <<Backtick>> \o Chars("a;}"),
   <<Backtick>> \o Chars("${ {a;}"),
   <<Backtick>> \o Chars("${'a;}")}

UnterminatedInBody ==
  UnterminatedLiterals
  \cup {<<>>, Chars("/* a;}"), Chars("// a;}"), Chars("{a;"), Chars("x=/}/;")}

\* Malformed text: code that opens no body or leaves a body open, followed by
\* a construct that never closes.
MalformedSites ==
  {[language |-> "javascript", tag |-> DefaultOptions.tag,
    parts |-> <<Seg("open", p), [kind |-> "unterminated", chars |-> u]>>]
     : p \in {"f(", "f()", "x="}, u \in UnterminatedLiterals \cup {<<>>}}
  \cup {[language |-> "javascript", tag |-> DefaultOptions.tag,
         parts |-> <<Seg("open", p), [kind |-> "unterminated", chars |-> u]>>]
          : p \in {"f(){", "f(){a=1;", "class A{m(){"}, u \in UnterminatedInBody}

\* String literals: closed, with escapes, and never closed.
StringConstructs ==
  {Chars("\"a\""), Chars("'a'"), Chars("\"\""), Chars("\"a'b\""), Chars("'a\\'b'"),
   Chars("\"a\\\\\""), Chars("\"\\\\\\\"b\""), Chars("\"a\\nb\""), Chars("\"a"),
   Chars("'a\\'"), Chars("\"a\\"), Chars("\"")}

\* Template literals that close: plain, with escapes, with interpolations
\* that hold braces, strings and templates.
TemplateConstructs ==
  {<<Backtick>> \o body \o <<Backtick>>
     : body \in {Chars("a"), <<>>, <<"\\", Backtick>>, Chars("${a}"), Chars("$a{"),
                 Chars("${ {b:{}} }}"), Chars("${'}'}"), Chars("${\"\\\"}\"}"),
                 Chars("${'") \o <<Backtick>> \o Chars("'}"),
                 Chars("${") \o <<Backtick>> \o Chars("}") \o <<Backtick>> \o Chars("}"),
                 Chars("${{a:") \o <<Backtick>> \o Chars("${b}") \o <<Backtick>>
                   \o Chars("}}")}}

\* Would-be regex literals: closed on their line, or with a line terminator
\* before the closing slash.
RegexConstructs ==
  {Chars("/ab/"), Chars("/a\\/b/g"), Chars("/[/]/"), Chars("/[\\]/]/i"),
   Chars("/a\nb/"), Chars("/a\rb/"), Chars("/\n/"), Chars("/a\\\nb/"),
   Chars("/[a\nb]/"), Chars("/[a]\n/"), Chars("/a")}

\* Largest number of constructs after the one under examination.
MaxTrail == 1

Trails(constructs) ==
  {Flatten(cs) : cs \in UNION {[1..k -> constructs] : k \in 0..MaxTrail}}

\* One construct at the start of the text and what follows it.
SkipperSites ==
  {[language |-> "javascript", tag |-> DefaultOptions.tag,
    parts |-> <<[kind |-> "string", chars |-> c], [kind |-> "tail", chars |-> t]>>]
     : c \in StringConstructs, t \in Trails({Chars(";"), Chars("'b'"), Chars("\"")})}
  \cup {[language |-> "javascript", tag |-> DefaultOptions.tag,
         parts |-> <<[kind |-> "template", chars |-> c], [kind |-> "tail", chars |-> t]>>]
          : c \in TemplateConstructs,
            t \in Trails({Chars("}"), <<Backtick>> \o Chars("b") \o <<Backtick>>})}
  \cup {[language |-> "javascript", tag |-> DefaultOptions.tag,
         parts |-> <<[kind |-> "regex", chars |-> c], [kind |-> "tail", chars |-> t]>>]
          : c \in RegexConstructs, t \in Trails({Chars(";"), Chars("/g")})}

\* Line endings of the Python texts with blank lines.
LineEndings == {Chars("\n"), Chars("\r\n")}

\* Python: a declaration, a body line, a blank line, a deeper line, and a
\* line at the declaration's indentation.
BlankLineBlocks ==
  {<<[kind |-> "blank",
      chars |-> Chars(ind) \o Chars("def f():") \o nl
                \o Chars(ind) \o Chars("  a") \o nl
                \o Chars(blank) \o nl
                \o Chars(ind) \o Chars("  b") \o nl
                \o Chars(sib)]>>
     : ind \in {"", "  "},
       nl \in LineEndings,
       blank \in {"", " ", "   ", "\t"},
       sib \in {"", "x", "\n"}}

\* A comment between the start of the governed code and its body opener:
\* after the parameter list or inside it, holding a ';', braces, a
\* parenthesis or a quote.
RemarkSites ==
  {[language |-> "javascript", tag |-> DefaultOptions.tag,
    parts |-> <<Seg("comment", "/** @ai-gen */\n"), Seg("signature", sg[1]),
                Seg("remark", r), Seg("code", sg[2]), Seg("tail", tl)>>]
     : sg \in {<<"f() ", "{b}">>, <<"f(a ", ") {b}">>},
       r \in {"/* a; */", "// a;\n", "/* {} */", "// {}\n", "/* ) */", "/* ( */",
              "/* it's */", "// say \"hi\n"},
       tl \in {"", "\nz{}"}}

CallSites ==
  {[language |-> "javascript", tag |-> DefaultOptions.tag, parts |-> c \o b]
     : c \in CommentsOf("javascript"),
       b \in LiteralBlocks \cup TypedFunctions \cup PlainBlocks}
  \cup {[language |-> "python", tag |-> DefaultOptions.tag, parts |-> c \o b]
          : c \in CommentsOf("python"), b \in PythonBlocks \cup BlankLineBlocks}
  \cup TagSites \cup StateSites \cup MalformedSites \cup SkipperSites
  \cup RemarkSites

\* The text under examination.
Source == Render(parts)

ResolverOptions == [DefaultOptions EXCEPT !.language = language, !.tag = tag]

ResolverInit ==
  /\ \E site \in CallSites :
       /\ parts = site.parts
       /\ language = site.language
       /\ tag = site.tag
       /\ startOffset = SpaceStarEnd(Render(site.parts), KindLen(site.parts, "comment"))
  /\ scanned = FALSE
  /\ found = <<>>
  /\ end = NotCalled
  /\ carefulEnd = NotCalled
  /\ skipEnd = NotCalled
  /\ text = <<<<>>, <<>>>>
  /\ options = <<DefaultOptions @@ [includeAllowed |-> FALSE],
                 DefaultOptions @@ [includeAllowed |-> FALSE]>>
  /\ ScanIdle
  /\ EditorIdle

\* The body opener the opener search of findBlockEndOffset stops at, -1 when
\* it returns or runs out of text first.
OpeningBraceOffset ==
  LET opener == openerLoop(Source, Len(Source), startOffset, 0, NoChar)
  IN  IF ~opener.returned /\ At(Source, opener.value) = "{" THEN opener.value ELSE -1

\* findAiGenDiagnostics(text, {language}) runs on the text to its return.
ScanSource ==
  /\ ~scanned
  /\ scanned' = TRUE
  /\ found' = findAiGenDiagnostics(Source, ResolverOptions)
  /\ UNCHANGED <<parts, language, tag, startOffset, end, carefulEnd, skipEnd>>
  /\ UNCHANGED <<scanVars, editorVars>>

CallFindBlockEndOffset ==
  /\ language = "javascript"
  /\ end = NotCalled
  /\ end' = findBlockEndOffset(Source, startOffset)
  /\ UNCHANGED <<parts, language, tag, startOffset, scanned, found, carefulEnd, skipEnd>>
  /\ UNCHANGED <<scanVars, editorVars>>

CallFindBlockEndOffsetCareful ==
  /\ language = "javascript"
  /\ carefulEnd = NotCalled
  /\ OpeningBraceOffset # -1
  /\ carefulEnd' = findBlockEndOffsetCareful(Source, OpeningBraceOffset, Len(Source))
  /\ UNCHANGED <<parts, language, tag, startOffset, scanned, found, end, skipEnd>>
  /\ UNCHANGED <<scanVars, editorVars>>

CallFindPythonBlockEndOffset ==
  /\ language = "python"
  /\ end = NotCalled
  /\ end' = findPythonBlockEndOffset(Source, startOffset)
  /\ UNCHANGED <<parts, language, tag, startOffset, scanned, found, carefulEnd, skipEnd>>
  /\ UNCHANGED <<scanVars, editorVars>>

\* skipString(text, startOffset, quote) for the quote at startOffset.
CallSkipString ==
  /\ At(Source, startOffset) \in {"\"", "'"}
  /\ skipEnd = NotCalled
  /\ skipEnd' = skipString(Source, startOffset, At(Source, startOffset))
  /\ UNCHANGED <<parts, language, tag, startOffset, scanned, found, end, carefulEnd>>
  /\ UNCHANGED <<scanVars, editorVars>>

\* skipTemplateLiteral(text, startOffset, text.length) for the backtick at
\* startOffset.
CallSkipTemplateLiteral ==
  /\ At(Source, startOffset) = Backtick
  /\ skipEnd = NotCalled
  /\ skipEnd' = skipTemplateLiteral(Source, startOffset, Len(Source))
  /\ UNCHANGED <<parts, language, tag, startOffset, scanned, found, end, carefulEnd>>
  /\ UNCHANGED <<scanVars, editorVars>>

\* skipRegexLiteral(text, startOffset, text.length) for the slash at
\* startOffset.
CallSkipRegexLiteral ==
  /\ At(Source, startOffset) = "/"
  /\ skipEnd = NotCalled
  /\ skipEnd' = skipRegexLiteral(Source, startOffset, Len(Source))
  /\ UNCHANGED <<parts, language, tag, startOffset, scanned, found, end, carefulEnd>>
  /\ UNCHANGED <<scanVars, editorVars>>

ResolverNext ==
  \/ ScanSource
  \/ CallFindBlockEndOffset
  \/ CallFindBlockEndOffsetCareful
  \/ CallFindPythonBlockEndOffset
  \/ CallSkipString
  \/ CallSkipTemplateLiteral
  \/ CallSkipRegexLiteral

ResolverSpec == ResolverInit /\ [][ResolverNext]_vars

(***************************************************************************)
(* Scans one after the other, or calls on one call site                    *)
(***************************************************************************)

TerminationInit == SeqInit \/ ResolverInit

TerminationNext ==
  \/ parts = <<>> /\ SeqNext
  \/ parts # <<>> /\ ResolverNext

TerminationSpec == TerminationInit /\ [][TerminationNext]_vars

(***************************************************************************)
(* The editor layer: the event handlers of activate(), triggerUpdate and   *)
(* updateDiagnostics (src/src/extension.ts)                                *)
(***************************************************************************)

\* Largest document.version: a document is changed while its version is
\* below it.
MaxVersion == 3

\* Largest number of analyses scheduled in one behaviour.
MaxAnalyses == 3

\* Largest generation of the 'ackAi' settings.
MaxConfiguration == 2

\* The record setImmediate is given in triggerUpdate: the document, its
\* token, where updateDiagnostics stands ("scheduled", "awaiting" the scan,
\* "returned"), and the text and settings it read before the scan.
NewAnalysis(d) ==
  [document |-> d, cancelled |-> FALSE, at |-> "scheduled",
   textVersion |-> 0, configuration |-> 0]

\* cancel() that requests nothing.
cancel_Nothing(as, a) == as

\* source.cancel() on the source of analysis a, if there is one.
cancel(as, a) == IF a = 0 THEN as ELSE [as EXCEPT ![a].cancelled = TRUE]

\* token.isCancellationRequested read as false.
IsCancellationRequested_Never(a) == FALSE

\* token.isCancellationRequested of analysis a.
IsCancellationRequested(a) == analyses[a].cancelled

\* clearTimeout that clears nothing.
clearTimeout_Nothing(ts, d, handle) == ts

\* clearTimeout(existingTimer) for the handle the map holds for d.
clearTimeout(ts, d, handle) == ts \ {[document |-> d, handle |-> handle]}

\* applyDecorations: the editors that show d, if any, are given the ranges.
applyDecorations(decs, vis, d, ranges) ==
  IF vis[d] THEN [decs EXCEPT ![d] = ranges] ELSE decs

\* What triggerUpdate reads and writes besides the cache.
EditorState ==
  [tokenSources |-> tokenSources, analyses |-> analyses, decorations |-> decorations]

\* triggerUpdate(document) with the cache and the visible editors as they
\* are when it runs: a cache entry of the document's version is applied;
\* otherwise the previous source is cancelled and a new analysis scheduled.
triggerUpdate(st, cache, vis, d) ==
  IF cache[d] # Undefined /\ cache[d].version = version[d]
  THEN [st EXCEPT !.decorations = applyDecorations(@, vis, d, cache[d])]
  ELSE [st EXCEPT
          !.analyses = Append(cancel(@, st.tokenSources[d]), NewAnalysis(d)),
          !.tokenSources = [@ EXCEPT ![d] = Len(st.analyses) + 1]]

\* editors.forEach(editor => triggerUpdate(editor.document)) over the
\* documents ds.
RECURSIVE triggerUpdateEach(_, _, _, _)
triggerUpdateEach(st, cache, vis, ds) ==
  IF ds = {} THEN st
  ELSE LET d == CHOOSE x \in ds : \A y \in ds : x <= y
       IN  triggerUpdateEach(triggerUpdate(st, cache, vis, d), cache, vis, ds \ {d})

\* The handler ends with the state st; no more than MaxAnalyses analyses
\* are scheduled.
Becomes(st) ==
  /\ Len(st.analyses) <= MaxAnalyses
  /\ tokenSources' = st.tokenSources
  /\ analyses' = st.analyses
  /\ decorations' = st.decorations

EditorInit ==
  /\ EditorIdle
  /\ text = <<<<>>, <<>>>>
  /\ options = <<DefaultOptions @@ [includeAllowed |-> FALSE],
                 DefaultOptions @@ [includeAllowed |-> FALSE]>>
  /\ ScanIdle
  /\ ResolverIdle

\* onDidOpenTextDocument(doc => triggerUpdate(doc))
OpenTextDocument(d) ==
  /\ lifecycle[d] = "unopened"
  /\ lifecycle' = [lifecycle EXCEPT ![d] = "open"]
  /\ Becomes(triggerUpdate(EditorState, decorationCache, visible, d))
  /\ UNCHANGED <<version, visible, configuration, debounceTimers, timers,
                 decorationCache, diagnostics>>
  /\ UNCHANGED <<scanVars, resolverVars>>

\* onDidChangeTextDocument: the document has a new version; the timer of the
\* map entry is cleared and a new one set and stored.
ChangeTextDocument(d) ==
  /\ lifecycle[d] = "open"
  /\ version[d] < MaxVersion
  /\ version' = [version EXCEPT ![d] = @ + 1]
  /\ timers' = clearTimeout(timers, d, debounceTimers[d])
                 \cup {[document |-> d, handle |-> version[d] + 1]}
  /\ debounceTimers' = [debounceTimers EXCEPT ![d] = version[d] + 1]
  /\ UNCHANGED <<lifecycle, visible, configuration, tokenSources, decorationCache,
                 analyses, diagnostics, decorations>>
  /\ UNCHANGED <<scanVars, resolverVars>>

\* The callback of a debounce timer: triggerUpdate(event.document);
\* debounceTimers.delete(key).
TimerFires(t) ==
  /\ t \in timers
  /\ timers' = timers \ {t}
  /\ Becomes(triggerUpdate(EditorState, decorationCache, visible, t.document))
  /\ debounceTimers' = [debounceTimers EXCEPT ![t.document] = 0]
  /\ UNCHANGED <<lifecycle, version, visible, configuration, decorationCache,
                 diagnostics>>
  /\ UNCHANGED <<scanVars, resolverVars>>

\* onDidChangeActiveTextEditor(editor => triggerUpdate(editor.document, editor))
ChangeActiveTextEditor(d) ==
  /\ lifecycle[d] = "open"
  /\ visible[d]
  /\ Becomes(triggerUpdate(EditorState, decorationCache, visible, d))
  /\ UNCHANGED <<lifecycle, version, visible, configuration, debounceTimers, timers,
                 decorationCache, diagnostics>>
  /\ UNCHANGED <<scanVars, resolverVars>>

\* onDidChangeVisibleTextEditors: the open documents ds are now the ones shown.
ChangeVisibleTextEditors(ds) ==
  /\ \A d \in ds : lifecycle[d] = "open"
  /\ ds # {d \in Docs : visible[d]}
  /\ visible' = [d \in Docs |-> d \in ds]
  /\ Becomes(triggerUpdateEach(EditorState, decorationCache,
                               [d \in Docs |-> d \in ds], ds))
  /\ UNCHANGED <<lifecycle, version, configuration, debounceTimers, timers,
                 decorationCache, diagnostics>>
  /\ UNCHANGED <<scanVars, resolverVars>>

\* onDidChangeConfiguration with e.affectsConfiguration('ackAi'): the cache
\* is cleared and every visible editor's document updated.
ChangeConfiguration ==
  /\ configuration < MaxConfiguration
  /\ configuration' = configuration + 1
  /\ decorationCache' = [d \in Docs |-> Undefined]
  /\ Becomes(triggerUpdateEach(EditorState, [d \in Docs |-> Undefined], visible,
                               {d \in Docs : visible[d]}))
  /\ UNCHANGED <<lifecycle, version, visible, debounceTimers, timers, diagnostics>>
  /\ UNCHANGED <<scanVars, resolverVars>>

\* onDidCloseTextDocument, for a document no editor shows any more.
CloseTextDocument(d) ==
  /\ lifecycle[d] = "open"
  /\ ~visible[d]
  /\ lifecycle' = [lifecycle EXCEPT ![d] = "closed"]
  /\ analyses' = cancel(analyses, tokenSources[d])
  /\ tokenSources' = [tokenSources EXCEPT ![d] = 0]
  /\ timers' = clearTimeout(timers, d, debounceTimers[d])
  /\ debounceTimers' = [debounceTimers EXCEPT ![d] = 0]
  /\ decorationCache' = [decorationCache EXCEPT ![d] = Undefined]
  /\ UNCHANGED <<version, visible, configuration, diagnostics, decorations>>
  /\ UNCHANGED <<scanVars, resolverVars>>

\* The setImmediate callback of analysis a, the earliest one scheduled:
\* updateDiagnostics up to its await. A cancelled token makes it return;
\* otherwise it reads the text and the settings and starts the scan.
RunUpdateDiagnostics(a) ==
  /\ a \in 1..Len(analyses)
  /\ analyses[a].at = "scheduled"
  /\ \A b \in 1..(a - 1) : analyses[b].at # "scheduled"
  /\ analyses' =
       IF IsCancellationRequested(a)
       THEN [analyses EXCEPT ![a].at = "returned"]
       ELSE [analyses EXCEPT ![a].at = "awaiting",
                             ![a].textVersion = version[analyses[a].document],
                             ![a].configuration = configuration]
  /\ UNCHANGED <<lifecycle, version, visible, configuration, tokenSources,
                 debounceTimers, timers, decorationCache, diagnostics, decorations>>
  /\ UNCHANGED <<scanVars, resolverVars>>

\* The ranges analysis a built, stored under the document's version as it is
\* when they are stored.
RangesOf(a) ==
  [version |-> version[analyses[a].document],
   textVersion |-> analyses[a].textVersion,
   configuration |-> analyses[a].configuration]

\* The scan of analysis a has resolved: updateDiagnostics after its await. A
\* cancelled token makes it return; otherwise it sets the diagnostics,
\* writes the cache entry and applies the decorations.
ResumeUpdateDiagnostics(a) ==
  /\ a \in 1..Len(analyses)
  /\ analyses[a].at = "awaiting"
  /\ analyses' = [analyses EXCEPT ![a].at = "returned"]
  /\ IF IsCancellationRequested(a)
     THEN UNCHANGED <<diagnostics, decorationCache, decorations>>
     ELSE /\ diagnostics' = [diagnostics EXCEPT ![analyses[a].document] = RangesOf(a)]
          /\ decorationCache' =
               [decorationCache EXCEPT ![analyses[a].document] = RangesOf(a)]
          /\ decorations' =
               applyDecorations(decorations, visible, analyses[a].document, RangesOf(a))
  /\ UNCHANGED <<lifecycle, version, visible, configuration, tokenSources,
                 debounceTimers, timers>>
  /\ UNCHANGED <<scanVars, resolverVars>>

EditorNext ==
  \/ \E d \in Docs :
       \/ OpenTextDocument(d)
       \/ ChangeTextDocument(d)
       \/ ChangeActiveTextEditor(d)
       \/ CloseTextDocument(d)
  \/ \E t \in timers : TimerFires(t)
  \/ \E ds \in SUBSET Docs : ChangeVisibleTextEditors(ds)
  \/ ChangeConfiguration
  \/ \E a \in 1..MaxAnalyses :
       \/ RunUpdateDiagnostics(a)
       \/ ResumeUpdateDiagnostics(a)

EditorSpec == EditorInit /\ [][EditorNext]_vars

(***************************************************************************)
(* Properties                                                              *)
(***************************************************************************)

Done(s) == pc[s] = "done"

\* The matches of a returned list.
Returned(s) == {result[s][k] : k \in 1..Len(result[s])}

\* The comments of a text in left-to-right order, as the main pattern
\* delimits them from offset from on.
RECURSIVE CommentsFrom(_, _, _)
CommentsFrom(txt, pattern, from) ==
  LET m == SearchFrom(txt, pattern, from)
  IN  IF m.index = -1 THEN {} ELSE {m} \cup CommentsFrom(txt, pattern, m.end)

Comments(s) == CommentsFrom(text[s], mainPattern(options[s]), 0)

\* The normalized state word that follows the tag of match m in its text.
StateWord(s, m) ==
  tagContentOf(Slice(text[s], m.tagStartOffset + Len(options[s].tag), m.tagEndOffset))

\* The normalized state word of comment c, <<"no tag">> when it has no tag.
CommentState(s, c) ==
  LET t == tagRegexExec(Slice(text[s], c.index, c.end), options[s].tag)
  IN  IF t.index = -1 THEN <<"no tag">> ELSE tagContentOf(t.content)

IsAllowedComment(s, c) == CommentState(s, c) \in StatesSet(options[s].allowedStates)

HasCodeAfter(s, c) == SpaceStarEnd(text[s], c.end) < Len(text[s])

\* C1: two scans of different texts that interleave at their yield points
\* each return the list they return when run alone.
C1_InterleavedScansReturnSoloResult ==
  \A s \in Scans :
    (Done(s) /\ ~token[s] /\ text[1] # text[2])
      => result[s] = findAiGenDiagnostics(text[s], options[s])

\* C2: every returned match satisfies
\* tagStartOffset < tagEndOffset <= codeStartOffset <= codeEndOffset <= length(T).
C2_OffsetOrder ==
  \A s \in Scans :
    Done(s) =>
      \A m \in Returned(s) :
        /\ m.tagStartOffset < m.tagEndOffset
        /\ m.tagEndOffset <= m.codeStartOffset
        /\ m.codeStartOffset <= m.codeEndOffset
        /\ m.codeEndOffset <= Len(text[s])

\* A scan has returned a file-level match and a regular match whose code
\* span ends before the end of the text.
C2_Witness ==
  \E s \in Scans :
    /\ Done(s)
    /\ \E m \in Returned(s) : m.isFileLevel
    /\ \E m \in Returned(s) : ~m.isFileLevel /\ m.codeEndOffset < Len(text[s])

\* C3: a scan whose token is requested before the call returns an empty list.
C3_CancelledReturnsEmpty ==
  \A s \in Scans : (Done(s) /\ tokenAtCall[s]) => result[s] = <<>>

\* C4: the returned list is strictly ascending in tagStartOffset, and the
\* file-level match, when there is one, is its first element.
C4_SortedByTagStart ==
  \A s \in Scans :
    Done(s) =>
      /\ \A j, k \in 1..Len(result[s]) :
           j < k => result[s][j].tagStartOffset < result[s][k].tagStartOffset
      /\ \A k \in 1..Len(result[s]) : result[s][k].isFileLevel => k = 1

\* C5: no returned match has codeStartOffset = codeEndOffset.
C5_NoZeroWidthSpan ==
  \A s \in Scans :
    Done(s) => \A m \in Returned(s) : m.codeStartOffset # m.codeEndOffset

\* C6: with includeAllowed false, a comment whose tag is followed by exactly
\* an allowed-state word yields no match, and no returned match stands on a
\* tag whose state word is allowed.
C6_AllowedYieldsNoMatch ==
  \A s \in Scans :
    (Done(s) /\ ~options[s].includeAllowed) =>
      /\ \A c \in Comments(s) :
           IsAllowedComment(s, c) =>
             ~\E m \in Returned(s) : c.index <= m.tagStartOffset /\ m.tagStartOffset < c.end
      /\ \A m \in Returned(s) : StateWord(s, m) \notin StatesSet(options[s].allowedStates)

\* A scan without includeAllowed has returned matches for a text that begins
\* with an allowed line comment followed by code.
C6_Witness ==
  \E s \in Scans :
    /\ Done(s)
    /\ ~options[s].includeAllowed /\ options[s].detectFileLevel
    /\ result[s] # <<>>
    /\ \E c \in Comments(s) :
         /\ IsAllowedComment(s, c) /\ HasCodeAfter(s, c)
         /\ c.index = SpaceStarEnd(text[s], 0)
         /\ isInlineComment(Slice(text[s], c.index, c.end), options[s])

\* C7: with includeAllowed true, a tagged comment in an allowed state that is
\* followed by code is returned as a match of type 'allowed'.
C7_AllowedReturnedWhenIncluded ==
  \A s \in Scans :
    (Done(s) /\ ~token[s] /\ options[s].includeAllowed) =>
      \A c \in Comments(s) :
        (IsAllowedComment(s, c) /\ HasCodeAfter(s, c)) =>
          \E m \in Returned(s) :
            /\ m.type = "allowed"
            /\ c.index <= m.tagStartOffset /\ m.tagStartOffset < c.end

LeadingComment(s) ==
  [index |-> SpaceStarEnd(text[s], 0),
   end |-> DotStarEnd(text[s], SpaceStarEnd(text[s], 0))]

\* The text of scan s begins, after whitespace only, with a line comment
\* that holds the tag in a non-allowed state.
HasLeadingTaggedLineComment(s) ==
  LET c == LeadingComment(s)
      prefix == IF options[s].language = "javascript" THEN Chars("//") ELSE Chars("#")
  IN  /\ StartsWithAt(text[s], prefix, c.index)
      /\ TagIndex(Slice(text[s], c.index, c.end), options[s].tag, 0) # -1
      /\ ~IsAllowedComment(s, c)

\* C9: with detectFileLevel and detectInline on, a leading line comment that
\* holds the tag in a non-allowed state gives a match with isFileLevel whose
\* code span runs from just after the comment to the end of the text.
C9_LeadingLineCommentIsFileLevel ==
  \A s \in Scans :
    (Done(s) /\ ~token[s] /\ options[s].detectFileLevel /\ options[s].detectInline
       /\ HasLeadingTaggedLineComment(s)) =>
      \E m \in Returned(s) :
        /\ m.isFileLevel
        /\ m.codeStartOffset = LeadingComment(s).end
        /\ m.codeEndOffset = Len(text[s])

\* A scan has returned a file-level match for a leading line comment that is
\* preceded by whitespace and followed by code.
C9_Witness ==
  \E s \in Scans :
    /\ Done(s)
    /\ options[s].detectFileLevel /\ options[s].detectInline
    /\ HasLeadingTaggedLineComment(s)
    /\ LeadingComment(s).index > 0
    /\ HasCodeAfter(s, LeadingComment(s))
    /\ \E m \in Returned(s) : m.isFileLevel /\ m.codeStartOffset < m.codeEndOffset

\* C10: a match is file-level only if detectFileLevel is on and its comment
\* is a line comment preceded by whitespace only; every other match is a
\* regular one, and a scan returns at most one file-level match.
C10_FileLevelOnlyForLeadingLineComment ==
  \A s \in Scans :
    Done(s) =>
      /\ \A m \in Returned(s) :
           m.isFileLevel =>
             /\ options[s].detectFileLevel
             /\ HasLeadingTaggedLineComment(s)
             /\ LeadingComment(s).index <= m.tagStartOffset
             /\ m.tagEndOffset <= LeadingComment(s).end
      /\ Cardinality({k \in 1..Len(result[s]) : result[s][k].isFileLevel}) <= 1

\* A scan with detectFileLevel on has returned one file-level match and,
\* for a tagged comment that follows code, a regular match.
C10_Witness ==
  \E s \in Scans :
    /\ Done(s)
    /\ options[s].detectFileLevel
    /\ \E m \in Returned(s) : m.isFileLevel
    /\ \E m \in Returned(s) : ~m.isFileLevel /\ m.tagStartOffset > LeadingComment(s).end

\* The line-comment prefix of the language of scan s.
LinePrefix(s) ==
  IF options[s].language = "javascript" THEN Chars("//") ELSE Chars("#")

\* The doc-blocks (docstrings) of the text of scan s; hash-only languages
\* have none.
DocBlocks(s) ==
  CASE options[s].language = "javascript" -> CommentsFrom(text[s], JS_DOC_BLOCK_PATTERN, 0)
    [] options[s].language = "python" -> CommentsFrom(text[s], PY_DOC_BLOCK_PATTERN, 0)
    [] options[s].language = "hash" -> {}

\* Offset i of the text of scan s lies in a single-line comment: the prefix
\* stands before it on its line, and it is not inside a doc-block.
InLineComment(s, i) ==
  /\ \E p \in 0..i :
       /\ StartsWithAt(text[s], LinePrefix(s), p)
       /\ \A k \in p..i : ~IsLineTerminator(At(text[s], k))
  /\ ~\E d \in DocBlocks(s) : d.index <= i /\ i < d.end

\* Match m of scan s stands on a single-line comment.
OnLineComment(s, m) == InLineComment(s, m.tagStartOffset)

\* C11: with detectInline false, no returned match, file-level or regular,
\* has a single-line comment as its governing comment, in any language.
C11_NoLineCommentMatchWithoutInline ==
  \A s \in Scans :
    (Done(s) /\ ~options[s].detectInline) =>
      \A m \in Returned(s) : ~OnLineComment(s, m)

\* The offset of the first newline at or after offset i of the text of scan
\* s, or the length of the text when there is none.
FirstNewlineFrom(s, i) ==
  IF \E k \in i..(Len(text[s]) - 1) : At(text[s], k) = "\n"
  THEN CHOOSE k \in i..(Len(text[s]) - 1) :
         /\ At(text[s], k) = "\n"
         /\ \A j \in i..(k - 1) : At(text[s], j) # "\n"
  ELSE Len(text[s])

\* C12 as stated: in the hash-only family, for every returned match
\* codeEndOffset is not greater than the offset of the first newline at or
\* after codeStartOffset (or the text length when there is none).
C12_HashEndsAtNextNewline ==
  \A s \in Scans :
    (Done(s) /\ options[s].language = "hash") =>
      \A m \in Returned(s) : m.codeEndOffset <= FirstNewlineFrom(s, m.codeStartOffset)

\* C12 amended: in the hash-only family, for every returned match that is
\* not file-level, codeEndOffset is not greater than the offset of the first
\* newline at or after codeStartOffset (or the text length when there is none).
C12_HashRegularEndsAtNextNewline ==
  \A s \in Scans :
    (Done(s) /\ options[s].language = "hash") =>
      \A m \in Returned(s) :
        ~m.isFileLevel => m.codeEndOffset <= FirstNewlineFrom(s, m.codeStartOffset)

\* A hash-family scan has returned a regular match whose code line is
\* followed by more text.
C12_Witness ==
  \E s \in Scans :
    /\ Done(s) /\ options[s].language = "hash"
    /\ \E m \in Returned(s) :
         /\ ~m.isFileLevel
         /\ m.codeEndOffset = FirstNewlineFrom(s, m.codeStartOffset)
         /\ m.codeEndOffset < Len(text[s])

\* C15: a match that stands on a single-line comment and is not file-level
\* has as codeEndOffset the offset of the first newline at or after
\* codeStartOffset, or the text length when there is none, in every language.
C15_LineCommentGovernsNextLine ==
  \A s \in Scans :
    Done(s) =>
      \A m \in Returned(s) :
        (OnLineComment(s, m) /\ ~m.isFileLevel) =>
          m.codeEndOffset = FirstNewlineFrom(s, m.codeStartOffset)

\* A scan has returned a regular match on a single-line comment whose code
\* line opens a block that closes on a later line.
C15_Witness ==
  \E s \in Scans :
    /\ Done(s)
    /\ \E m \in Returned(s) :
         /\ OnLineComment(s, m) /\ ~m.isFileLevel
         /\ m.codeEndOffset < Len(text[s])
         /\ \E k \in m.codeStartOffset..(m.codeEndOffset - 1) : At(text[s], k) \in {"{", ":"}

Resolved(lang) == language = lang /\ end # NotCalled

\* The offsets at which the lines of the text begin.
LineStarts == {0} \cup {i + 1 : i \in {k \in 0..(Len(Source) - 2) : At(Source, k) = "\n"}}

\* The offset of the first character of the line at ls that is not a space
\* or a tab (the text length when the text ends first).
AfterIndent(ls) ==
  CHOOSE e \in ls..Len(Source) :
    /\ e = Len(Source) \/ At(Source, e) \notin {" ", "\t"}
    /\ \A k \in ls..(e - 1) : At(Source, k) \in {" ", "\t"}

\* The indentation of the line at ls in columns, a tab counting 4.
Columns(ls) ==
  (AfterIndent(ls) - ls)
    + 3 * Cardinality({k \in ls..(AfterIndent(ls) - 1) : At(Source, k) = "\t"})

IsBlankLine(ls) == AfterIndent(ls) = Len(Source) \/ At(Source, AfterIndent(ls)) = "\n"

\* The offset of the newline that ends the line at ls (the text length when
\* the text ends first).
EndOfLine(ls) ==
  CHOOSE e \in ls..Len(Source) :
    /\ e = Len(Source) \/ At(Source, e) = "\n"
    /\ \A k \in ls..(e - 1) : At(Source, k) # "\n"

\* The declaration line: the line that holds startOffset.
DeclLine == CHOOSE ls \in LineStarts : ls <= startOffset /\ startOffset <= EndOfLine(ls)

\* The non-blank lines after the declaration line that are indented at or
\* below it.
Siblings ==
  {ls \in LineStarts : ls > DeclLine /\ ~IsBlankLine(ls) /\ Columns(ls) <= Columns(DeclLine)}

FirstSibling == CHOOSE ls \in Siblings : \A o \in Siblings : ls <= o

\* The end of the last non-blank line before the first sibling line.
LastContentEnd ==
  LET content == {ls \in LineStarts : DeclLine <= ls /\ ls < FirstSibling /\ ~IsBlankLine(ls)}
  IN  EndOfLine(CHOOSE ls \in content : \A o \in content : o <= ls)

\* C13: in Python block resolution the first non-blank line after the
\* declaration line that is indented at or below it, code or '#' comment,
\* ends the block: the returned end is the end of the last earlier content
\* line, so no character of the sibling line is included.
C13_SiblingLineEndsPythonBlock ==
  (Resolved("python") /\ Siblings # {}) => end = LastContentEnd

HasKind(kind) == KindLen(parts, kind) > 0

\* The offset one past the last segment before the tail: where the governed
\* block of a text built from segments closes.
BlockClose == Len(Source) - KindLen(parts, "tail")

\* C14: for a C-family doc-block match, braces inside double-quoted strings,
\* single-quoted strings and template literals (interpolations included) do
\* not change codeEndOffset: it is the codeEndOffset of the same text with
\* those braces removed, shifted by the removed length.
C14_LiteralBracesDoNotMoveEnd ==
  (language = "javascript" /\ scanned /\ HasKind("comment") /\ HasKind("literal")) =>
    LET plain == PlainOf(parts)
        plainFound == findAiGenDiagnostics(plain, ResolverOptions)
    IN  /\ Len(found) = 1 /\ Len(plainFound) = 1
        /\ found[1].codeEndOffset - plainFound[1].codeEndOffset = Len(Source) - Len(plain)

\* A doc-block match has been returned for a block that holds a template
\* literal with an interpolation, and it ends where the block closes, before
\* the end of the text.
C14_Witness ==
  /\ language = "javascript" /\ scanned /\ HasKind("comment")
  /\ \E k \in 1..Len(parts) :
       /\ parts[k].kind = "literal"
       /\ \E i \in 1..Len(parts[k].chars) : parts[k].chars[i] = "$"
  /\ Len(found) = 1
  /\ found[1].codeEndOffset = BlockClose
  /\ BlockClose < Len(Source)

\* Number of offsets in from..to (inclusive) that hold character c.
Count(c, from, to) == Cardinality({k \in from..to : At(Source, k) = c})

\* Parenthesis depth just before offset i, counted from startOffset.
ParenDepth(i) == Count("(", startOffset, i - 1) - Count(")", startOffset, i - 1)

\* Brace depth just after offset i, counted from the brace at offset o.
BraceDepth(o, i) == Count("{", o, i) - Count("}", o, i)

\* The text from startOffset on holds no quote, backtick or slash, so every
\* character of it is code.
CodeOnly ==
  \A k \in startOffset..(Len(Source) - 1) : At(Source, k) \notin {"\"", "'", Backtick, "/"}

\* The offsets from startOffset on that hold '{' or ';' at parenthesis depth zero.
DepthZeroStops ==
  {i \in startOffset..(Len(Source) - 1) : At(Source, i) \in {"{", ";"} /\ ParenDepth(i) = 0}

FirstStop == CHOOSE i \in DepthZeroStops : \A o \in DepthZeroStops : i <= o

\* The offsets of the '}' that bring the brace depth counted from o to zero.
Closers(o) == {i \in o..(Len(Source) - 1) : At(Source, i) = "}" /\ BraceDepth(o, i) = 0}

FirstCloser(o) == CHOOSE i \in Closers(o) : \A c \in Closers(o) : i <= c

C18_SemicolonEndsStatement ==
  (Resolved("javascript") /\ CodeOnly /\ DepthZeroStops # {}
     /\ At(Source, FirstStop) = ";") =>
    end = FirstStop + 1

\* The resolver has returned for a statement with a ';' inside parentheses
\* before the ';' that ends it.
C18_Witness ==
  /\ Resolved("javascript") /\ CodeOnly /\ DepthZeroStops # {}
  /\ At(Source, FirstStop) = ";"
  /\ \E i \in startOffset..FirstStop : At(Source, i) = ";" /\ ParenDepth(i) > 0
  /\ end = FirstStop + 1
  /\ end < Len(Source)

\* C17: for a doc-block above a function whose signature has, between the
\* closing parenthesis of the parameter list and the body, a type annotation
\* that holds braces, codeEndOffset is one past the closing brace of the
\* function body.
C17_BracedReturnTypeIsNotTheBody ==
  (language = "javascript" /\ scanned /\ HasKind("comment") /\ HasKind("annotation")) =>
    /\ Len(found) = 1
    /\ found[1].codeEndOffset = BlockClose

\* C19: when findBlockEndOffset selects the fast path for a text and its
\* body opener, the result equals what findBlockEndOffsetCareful returns for
\* the same text and opener.
C19_FastPathEqualsCareful ==
  (Resolved("javascript") /\ carefulEnd # NotCalled
     /\ ~hasComplexContentInRange(Source, OpeningBraceOffset + 1, Len(Source))) =>
    end = carefulEnd

\* C20: a scan that runs without interleaving returns the same list whatever
\* scans, completed or cancelled, ran before it: the list of a first scan of
\* its text and settings, and the list the earlier scan returned when that
\* scan had the same text and settings and was not cancelled.
C20_EarlierScansLeaveNoTrace ==
  Done(2) =>
    /\ result[2] = findAiGenDiagnostics(text[2], options[2])
    /\ (text[1] = text[2] /\ ~token[1]) => result[2] = result[1]

\* The later scan has returned two matches after an earlier scan was
\* cancelled at a comment and returned the empty list.
C20_Witness ==
  /\ Done(1) /\ Done(2)
  /\ token[1] /\ result[1] = <<>>
  /\ Comments(1) # {}
  /\ Len(result[2]) >= 2

\* C21: a call of findAiGenDiagnostics with the empty tag is rejected before
\* scanning: it never returns a list of matches.  (The function has no
\* outcome but returning a list, so a rejected call is one that has not
\* returned.)
C21_EmptyTagReturnsNoList == ~(scanned /\ tag = <<>>)

\* C22: on a malformed text (no body opener or statement terminator before
\* the end of the text, or a string, template literal, comment or block that
\* never closes) findBlockEndOffset returns the text length.
C22_MalformedTextEndsAtTextLength ==
  (Resolved("javascript") /\ HasKind("open")) => end = Len(Source)

\* The comment of the text under examination.
CommentText == Slice(Source, 0, KindLen(parts, "comment"))

\* C23: a comment produces a match only if it holds the configured tag as a
\* literal string, letters compared without case, and then the match starts
\* at the first such occurrence; regex metacharacters in the tag stand for
\* themselves, and a comment with only the default tag gives no match under
\* a custom tag.
C23_TagIsMatchedLiterally ==
  (scanned /\ HasKind("tagged") /\ tag # <<>>) =>
    LET t == TagIndex(CommentText, tag, 0)
    IN  IF t = -1 THEN found = <<>>
        ELSE Len(found) = 1 /\ found[1].tagStartOffset = t

\* A tag with a metacharacter is found in a comment that spells it in
\* another case.
C23_Witness ==
  /\ scanned
  /\ tag = Chars("@a.i")
  /\ IndexOf(CommentText, Chars("@A.I"), 0) # -1
  /\ Len(found) = 1

\* The matches of a returned list whose tag lies in comment c.
MatchesIn(s, c) ==
  {k \in 1..Len(result[s]) :
     c.index <= result[s][k].tagStartOffset /\ result[s][k].tagStartOffset < c.end}

IsTaggedComment(s, c) == TagIndex(Slice(text[s], c.index, c.end), options[s].tag, 0) # -1

\* C24: when a scan returns a file-level match, the file-level comment is
\* reported once, and every later tagged comment in a state that is not
\* allowed and with code after it has its own regular match in the result.
C24_FileLevelCommentSkippedOnce ==
  \A s \in Scans :
    (Done(s) /\ ~token[s] /\ \E m \in Returned(s) : m.isFileLevel) =>
      /\ Cardinality(MatchesIn(s, LeadingComment(s))) = 1
      /\ \A c \in Comments(s) :
           (c.index >= LeadingComment(s).end /\ IsTaggedComment(s, c)
              /\ ~IsAllowedComment(s, c) /\ HasCodeAfter(s, c)) =>
             \E k \in MatchesIn(s, c) : ~result[s][k].isFileLevel

\* A scan has returned a file-level match and a regular match for a later
\* comment.
C24_Witness ==
  \E s \in Scans :
    /\ Done(s) /\ ~token[s]
    /\ \E m \in Returned(s) : m.isFileLevel
    /\ \E c \in Comments(s) :
         /\ c.index >= LeadingComment(s).end
         /\ \E k \in MatchesIn(s, c) : ~result[s][k].isFileLevel

\* All the text of the comment between the end of the tag and the closing
\* delimiter (two characters in the C family, three in Python).
StateRegion ==
  LET closing == TrimEndLen(CommentText, Len(CommentText))
                   - (IF language = "python" THEN 3 ELSE 2)
  IN  Slice(CommentText, TagIndex(CommentText, tag, 0) + Len(tag), closing)

\* The text of r from its first non-whitespace character to the end of that
\* character's line.
FirstTextLine(r) ==
  LET texts == {k \in 1..Len(r) : ~IsSpace(r[k])}
      s == IF texts = {} THEN Len(r) + 1 ELSE CHOOSE k \in texts : \A o \in texts : k <= o
      stops == {k \in s..Len(r) : IsLineTerminator(r[k])}
      e == IF stops = {} THEN Len(r) + 1 ELSE CHOOSE k \in stops : \A o \in stops : k <= o
  IN  SubSeq(r, s, e - 1)

\* The scan has classified the comment by the state text r: no match for an
\* allowed state, a rejected match for a rejected state, a warning otherwise.
ClassifiedBy(r) ==
  LET state == tagContentOf(r)
  IN  IF state \in StatesSet(DefaultOptions.allowedStates) THEN found = <<>>
      ELSE /\ Len(found) = 1
           /\ found[1].type = IF state \in StatesSet(DefaultOptions.rejectedStates)
                              THEN "rejected" ELSE "warning"

\* C25 as stated: the state text classified for a tag is all the text
\* between the end of the tag and the comment's closing delimiter, in
\* single-line and multi-line comments alike.
C25_StateIsAllTextToDelimiter ==
  (scanned /\ HasKind("governed")) => ClassifiedBy(StateRegion)

\* C25: the state text classified for a tag is the text between the end of
\* the tag and the comment's closing delimiter from its first
\* non-whitespace character to the end of that character's line; text on
\* later lines of a multi-line comment is not part of it.
C25_StateIsFirstTextLine ==
  (scanned /\ HasKind("governed")) => ClassifiedBy(FirstTextLine(StateRegion))

\* A multi-line comment with an allowed word on the tag's line and more text
\* on the next line has been scanned and gave no match.
C25_Witness ==
  /\ scanned /\ HasKind("governed")
  /\ tagContentOf(FirstTextLine(StateRegion)) = Chars("ok")
  /\ tagContentOf(StateRegion) # Chars("ok")
  /\ found = <<>>

\* Offset of the first non-whitespace character of scan s's text at or after
\* offset i, the text length when there is none.
FirstNonSpaceFrom(s, i) ==
  LET codes == {k \in i..(Len(text[s]) - 1) : ~IsSpace(At(text[s], k))}
  IN  IF codes = {} THEN Len(text[s]) ELSE CHOOSE k \in codes : \A o \in codes : k <= o

RegexText == Slice(Source, 0, KindLen(parts, "regex"))

\* C27: skipRegexLiteral gives up on a would-be regex that holds a line
\* terminator before its closing slash, wherever the line terminator
\* stands (in the plain body, after a backslash, inside a character class),
\* and returns start + 1.
C27_NewlineAbortsRegex ==
  (skipEnd # NotCalled /\ HasKind("regex")
     /\ \E k \in 1..Len(RegexText) : IsLineTerminator(RegexText[k])) =>
    skipEnd = startOffset + 1

\* The offsets after startOffset where the quote that opens at startOffset
\* stands free: not consumed by a backslash.  A backslash consumes the next
\* character, so a character is consumed when the backslashes that run up
\* to it, counted back to the opening quote, are odd in number.
BackslashRun(i) ==
  LET others == {k \in (startOffset + 1)..(i - 1) : At(Source, k) # "\\"}
      last == IF others = {} THEN startOffset
              ELSE CHOOSE k \in others : \A o \in others : k >= o
  IN  i - 1 - last

FreeQuotes ==
  {i \in (startOffset + 1)..(Len(Source) - 1) :
     At(Source, i) = At(Source, startOffset) /\ BackslashRun(i) % 2 = 0}

\* C28: skipString returns one past the first free occurrence of the quote
\* character, or the text length when there is none; the result is greater
\* than start and at most the text length.
C28_StringEndsPastFirstFreeQuote ==
  (skipEnd # NotCalled /\ At(Source, startOffset) \in {"\"", "'"}) =>
    /\ skipEnd = IF FreeQuotes = {} THEN Len(Source)
                 ELSE 1 + CHOOSE i \in FreeQuotes : \A o \in FreeQuotes : i <= o
    /\ skipEnd > startOffset
    /\ skipEnd <= Len(Source)

\* skipString has gone over an escaped quote and stopped past a later free
\* one, short of the end of the text.
C28_Witness ==
  /\ skipEnd # NotCalled
  /\ At(Source, startOffset) \in {"\"", "'"}
  /\ skipEnd < Len(Source)
  /\ \E i \in (startOffset + 1)..(skipEnd - 2) :
       At(Source, i) = At(Source, startOffset) /\ BackslashRun(i) % 2 = 1

\* C29: skipTemplateLiteral returns one past the backtick that closes the
\* literal opened at start; a backtick or '}' inside an interpolation, at a
\* positive brace depth or inside a nested string or template literal, closes
\* neither the literal nor the interpolation.
C29_TemplateEndsPastClosingBacktick ==
  (skipEnd # NotCalled /\ HasKind("template")) =>
    skipEnd = startOffset + KindLen(parts, "template")

\* skipTemplateLiteral has gone over an interpolation that holds a backtick
\* and a '}' before the one that closes it, and stopped short of the end of
\* the text.
C29_Witness ==
  /\ skipEnd # NotCalled /\ HasKind("template")
  /\ skipEnd < Len(Source)
  /\ \E i \in 1..(skipEnd - 2) :
       /\ At(Source, i) = "$" /\ At(Source, i + 1) = "{"
       /\ \E j \in (i + 2)..(skipEnd - 3), k \in (i + 2)..(skipEnd - 3) :
            At(Source, j) = Backtick /\ At(Source, k) = "}"

\* The line at ls is empty or holds spaces and tabs only, whatever ends it.
IsBlankLineOfAnyEnding(ls) ==
  \/ IsBlankLine(ls)
  \/ At(Source, AfterIndent(ls)) = "\r" /\ At(Source, AfterIndent(ls) + 1) \in {"\n", NoChar}

\* The lines after the declaration line that can end its block: not blank
\* and indented at or below the declaration.
BlockEnders ==
  {ls \in LineStarts :
     ls > DeclLine /\ ~IsBlankLineOfAnyEnding(ls) /\ Columns(ls) <= Columns(DeclLine)}

\* C30: in Python block resolution a blank line, whatever its line ending,
\* does not end the block: a line after it that is indented more than the
\* declaration, with no line at or below the declaration's indentation
\* before it, lies within the returned end.
C30_BlankLineKeepsPythonBlockOpen ==
  Resolved("python") =>
    \A blank \in LineStarts, later \in LineStarts :
      (/\ DeclLine < blank /\ blank < later
       /\ IsBlankLineOfAnyEnding(blank)
       /\ ~IsBlankLineOfAnyEnding(later)
       /\ Columns(later) > Columns(DeclLine)
       /\ \A e \in BlockEnders : e > later) =>
        end >= EndOfLine(later)

\* C31: a scan's match list changes only in a step that leaves that scan
\* running at the loop head (the call, the loop body, or the loop body after a
\* resumption); the step that suspends the scan, the step of the cancellation
\* check and every step taken while the scan is suspended leave its match
\* list as it was, so extent resolution and the append of its match are never
\* separated by a suspension.
C31_SuspendsOnlyBetweenComments ==
  [][\A s \in Scans :
       /\ matches'[s] # matches[s] => (running' = s /\ pc'[s] = "loop")
       /\ pc'[s] \in {"await", "done"} => matches'[s] = matches[s]
       /\ (pc[s] = "await" /\ pc'[s] = "await") =>
            (matches'[s] = matches[s] /\ match'[s] = match[s])
       /\ (pc[s] = "await" /\ pc'[s] = "loop") =>
            Len(matches'[s]) \in {Len(matches[s]), Len(matches[s]) + 1}]_vars

\* A scan runs with matches appended while the other scan is suspended
\* holding a comment it has not resolved yet.
C31_Witness ==
  \E s \in Scans :
    \E t \in Scans \ {s} :
      /\ pc[t] = "await"
      /\ match[t].index # -1
      /\ running = s
      /\ Len(matches[s]) >= 1
      /\ Len(matches[t]) >= 1

\* A step in which scan s executes.
StepOf(s) == running = s \/ running' = s

\* What is left for scan s to do: twice the text after lastIndex of the main
\* pattern, and the position within the iteration.
Variant(s) ==
  CASE pc[s] = "done" -> 0
    [] pc[s] = "idle" -> 2 * Len(text[s]) + 3
    [] pc[s] = "await" -> 2 * (Len(text[s]) - lastIndex[mainPattern(options[s])]) + 3
    [] OTHER -> 2 * (Len(text[s]) - lastIndex[mainPattern(options[s])]) + 2

\* C32: skipString, skipTemplateLiteral and skipRegexLiteral return an offset
\* greater than their start and within the text; and when scans run one
\* after the other, every step of a scan lowers a natural number: each
\* iteration of the main comment loop moves lastIndex of the main pattern
\* forward within the text, so the scan returns after finitely many steps.
C32_ScansTerminate ==
  /\ [](skipEnd # NotCalled => (skipEnd > startOffset /\ skipEnd <= Len(Source)))
  /\ [](\A s \in Scans : Variant(s) >= 0)
  /\ [][\A s \in Scans : StepOf(s) => Variant(s)' < Variant(s)]_vars

\* Both scans have returned, one after more than one iteration of its loop.
C32_Witness ==
  \E s \in Scans :
    /\ pc[s] = "done"
    /\ Len(result[s]) >= 2
    /\ \E t \in Scans \ {s} : pc[t] = "done" /\ Len(text[t]) > 0

\* Offset i lies inside the comment between the start of the governed code
\* and its body opener.
InRemark(i) ==
  /\ i >= KindLen(parts, "comment") + KindLen(parts, "signature")
  /\ i < KindLen(parts, "comment") + KindLen(parts, "signature") + KindLen(parts, "remark")

\* The offsets from startOffset on that hold a quote character.
QuoteOffsets ==
  {i \in startOffset..(Len(Source) - 1) : At(Source, i) \in {"\"", "'", Backtick}}

C34_CacheEntryIsOfItsVersion ==
  \A d \in Docs :
    decorationCache[d] # Undefined =>
      decorationCache[d].textVersion = decorationCache[d].version

\* The analyses scheduled so far.
Analyses == 1..Len(analyses)

\* The step is one of updateDiagnostics of analysis a.
StepOfAnalysis(a) == a \in Analyses /\ analyses'[a].at # analyses[a].at

\* C35: of the analyses of one document every one but the latest has its
\* token cancelled, so at most one of them can publish; and a step of an
\* analysis whose token is cancelled sets no diagnostics, writes no cache
\* entry and applies no decorations.
C35_OnlyLatestAnalysisPublishes ==
  /\ [](\A a \in Analyses :
          \A b \in Analyses :
            (a < b /\ analyses[a].document = analyses[b].document) =>
              analyses[a].cancelled)
  /\ [](\A d \in Docs :
          Cardinality({a \in Analyses : analyses[a].document = d
                                          /\ ~analyses[a].cancelled}) <= 1)
  /\ [][\A a \in 1..MaxAnalyses :
          (StepOfAnalysis(a) /\ analyses[a].cancelled) =>
            UNCHANGED <<diagnostics, decorationCache, decorations>>]_vars

\* An analysis that had read the text was cancelled by the triggerUpdate of
\* a later analysis of its document and has returned, and the later
\* analysis has returned with its token not cancelled and diagnostics set.
C35_Witness ==
  \E a \in Analyses :
    \E b \in Analyses :
      /\ a < b
      /\ analyses[a].document = analyses[b].document
      /\ analyses[a].cancelled
      /\ analyses[a].at = "returned"
      /\ analyses[a].textVersion # 0
      /\ analyses[b].at = "returned"
      /\ ~analyses[b].cancelled
      /\ diagnostics[analyses[b].document] # Undefined

\* C36: every decorationCache entry holds ranges that were computed under
\* the configuration in force.
C36_CacheEntryIsOfConfiguration ==
  \A d \in Docs :
    decorationCache[d] # Undefined =>
      decorationCache[d].configuration = configuration

\* C37: for each document at most one debounce timer is pending, and a
\* pending timer is the one the latest text change of its document set: its
\* handle is the one debounceTimers holds for the document, and the document
\* has not changed since it was set; so a timer that fires was set by the
\* latest change.
C37_OnlyLatestTimerPending ==
  /\ \A d \in Docs : Cardinality({t \in timers : t.document = d}) <= 1
  /\ \A t \in timers :
       /\ debounceTimers[t.document] = t.handle
       /\ t.handle = version[t.document]
  /\ \A d \in Docs :
       debounceTimers[d] # 0 => [document |-> d, handle |-> debounceTimers[d]] \in timers

\* A document has changed twice with the timer of the first change still
\* pending at the second, and the one timer pending for it is the timer of
\* the second change.
C37_Witness ==
  \E d \in Docs :
    /\ version[d] >= 3
    /\ {t \in timers : t.document = d} = {[document |-> d, handle |-> version[d]]}
    /\ tokenSources[d] = 1
    /\ Len(analyses) = 1

\* C38: a closed document has no entry in tokenSources, debounceTimers and
\* decorationCache, no timer pending, and the token of each of its analyses
\* cancelled; and no step while it is closed sets its diagnostics, writes a
\* cache entry for it or applies decorations for it.
C38_ClosedDocumentStaysClean ==
  /\ [](\A d \in Docs :
          lifecycle[d] = "closed" =>
            /\ tokenSources[d] = 0
            /\ debounceTimers[d] = 0
            /\ decorationCache[d] = Undefined
            /\ \A t \in timers : t.document # d
            /\ \A a \in Analyses : analyses[a].document = d => analyses[a].cancelled)
  /\ [][\A d \in Docs :
          lifecycle[d] = "closed" =>
            /\ diagnostics'[d] = diagnostics[d]
            /\ decorationCache'[d] = decorationCache[d]
            /\ decorations'[d] = decorations[d]]_vars

\* A document that had changed was closed while its only analysis was
\* awaiting the scan; the analysis has returned since and nothing is set
\* for the document.
C38_Witness ==
  \E d \in Docs :
    /\ lifecycle[d] = "closed"
    /\ version[d] > 1
    /\ Len(analyses) = 1
    /\ analyses[1].document = d
    /\ analyses[1].at = "returned"
    /\ analyses[1].textVersion = version[d]
    /\ diagnostics[d] = Undefined

====
